---- MODULE Spec2Model ----
(***************************************************************************)
(* Model of the reddit goal-link client of golazo: the adaptive rate       *)
(* limiter (rateLimiter), the Client facade (GoalLink, GoalLinks,          *)
(* searchForGoal, searchForGoalOnce) and the goal link cache.              *)
(* It also holds the OAuthClient with its token, the two fetchers, and the  *)
(* DialogOverlay of package ui.                                            *)
(* Time is counted in whole seconds.                                       *)
(***************************************************************************)
EXTENDS Integers, Sequences, FiniteSets, TLC

VARIABLES
    now,              \* the wall clock, time.Now(), in seconds
    ticks,            \* number of clock advances taken so far (bounded)
    \* ---- rateLimiter (one instance) ----
    minInterval,      \* rateLimiter.minInterval
    lastRequest,      \* rateLimiter.lastRequest
    captchaCount,     \* rateLimiter.captchaCount
    lastCaptchaTime,  \* rateLimiter.lastCaptchaTime
    mu,               \* rateLimiter.mu: 0 when free, else the holder
    wpc,              \* per caller: position inside wait()
    wakeAt,           \* per caller: end of the time.Sleep of wait()
    userAgentIndex,   \* rateLimiter.userAgentIndex
    \* ---- observation of the limiter (history) ----
    nWaits,           \* completed wait() calls
    firstRequest,     \* lastRequest recorded by the first wait()
    prevRequest,      \* lastRequest before the most recent wait()
    waitStart,        \* time at which the most recent wait() started
    waitInterval,     \* currentInterval chosen by the most recent wait()
    waitElapsed,      \* time.Since(lastRequest) seen by the most recent wait()
    waitSlept,        \* duration handed to time.Sleep by the most recent wait()
    sigAtStart,       \* captchaCount seen by the most recent wait()
    capAtStart,       \* lastCaptchaTime seen by the most recent wait()
    nDoubled,         \* wait() calls that used the doubled interval
    lastCaller,       \* the caller of the most recent wait()
    prevCaller,       \* the caller of the wait() before it
    agentLog,         \* what the getNextUserAgent calls returned, in order
    \* ---- PublicJSONFetcher ----
    pub,              \* per caller: the frame of its Search call
    \* ---- OAuthClient token state ----
    oauthFetcher,     \* Client.oauthFetcher # nil
    accessToken,      \* OAuthClient.accessToken
    refreshTokenValue, \* OAuthClient.refreshTokenValue
    tokenExpiry,      \* OAuthClient.tokenExpiry
    tokenMutex,       \* OAuthClient.tokenMutex: 0 when free, else the writer
    tk,               \* per caller: the frame of its ensureValidToken /
                      \* authenticate / refreshToken call
    ctor,             \* NewClient: credentials in the environment, progress
                      \* and what it returned
    \* ---- Client ----
    cache,            \* Client.cache: GoalLinkKey -> entry
    fr,               \* per caller: the frame of its GoalLink / GoalLinks call
    fetcherScript,    \* behaviour of the Fetcher held in Client.publicFetcher
    \* ---- observation of the Client (history) ----
    resolved,         \* per key: the link a GoalLink call resolved and cached
                      \* since the last clear, NilLink when there is none
    \* ---- DialogOverlay (package ui) ----
    dialogs,          \* DialogOverlay.dialogs, the front dialog last
    \* ---- observation of the DialogOverlay (history) ----
    opened,           \* OpenDialog calls so far
    closed,           \* the dialogs taken off the stack, by their number
    lastOp            \* the last operation, its argument and the stack
                      \* before it

limVars == <<minInterval, lastRequest, captchaCount, lastCaptchaTime, mu, wpc,
             wakeAt, nWaits, firstRequest, prevRequest, waitStart,
             waitInterval, waitElapsed, waitSlept, sigAtStart, capAtStart,
             nDoubled, userAgentIndex, lastCaller, prevCaller, agentLog>>

limAll == <<limVars, pub>>

tokVars == <<oauthFetcher, accessToken, refreshTokenValue, tokenExpiry,
             tokenMutex, tk, ctor>>

cliVars == <<tokVars, cache, fr, fetcherScript, resolved>>

uiVars == <<dialogs, opened, closed, lastOp>>

vars == <<now, ticks, limVars, cliVars, pub, uiVars>>

----------------------------------------------------------------------------
(* Bounds of the model *)
MaxTicks == 3
MaxWaits == 4
MaxSignals == 2
MaxAgents == 7

(* Program constants *)
Minute == 60
PublicRPM == 5
OAuthRPM == 10
CaptchaCooldown == 600
CaptchaFactor == 2

\* time.Time{}, the zero time of an unset lastRequest / lastCaptchaTime: it lies
\* so far in the past that time.Since of it (which saturates at the largest
\* Duration, about 292 years) exceeds every interval the code compares with.
ZeroTime == -2000000000

LimCallers == {1}
\* the callers of PublicJSONFetcher.Search
FetchCallers == {1, 2}
TickSteps == {1, Minute \div OAuthRPM, Minute \div PublicRPM, CaptchaCooldown}

\* time.Since(t)
Since(t) == now - t

\* newRateLimiter(requestsPerMinute).minInterval
newRateLimiter(requestsPerMinute) == Minute \div requestsPerMinute

\* a limiter whose cooldown never ends once a signal was recorded
currentInterval_NoCooldownEnd ==
    IF captchaCount > 0 THEN minInterval * CaptchaFactor ELSE minInterval

\* currentInterval of wait(): doubled inside the cooldown after a signal
currentInterval ==
    IF captchaCount > 0 /\ Since(lastCaptchaTime) < CaptchaCooldown
    THEN minInterval * CaptchaFactor
    ELSE minInterval

\* a wait() that sleeps for the elapsed time instead of the remaining time
sleepFor_SleepsElapsed ==
    IF Since(lastRequest) < currentInterval THEN Since(lastRequest) ELSE 0

\* the argument of time.Sleep in wait(), 0 when wait() does not sleep
sleepFor ==
    IF Since(lastRequest) < currentInterval
    THEN currentInterval - Since(lastRequest)
    ELSE 0

----------------------------------------------------------------------------
(* DialogOverlay of package ui *)

MaxOpens == 4
MaxMsgs == 2

\* what Dialog.ID() can return
DialogIDs == {"help", "confirm"}

\* a nil Dialog
NilDialog == [id |-> "", serial |-> 0, msgs |-> 0]

\* no operation yet
NoOp == [op |-> "none", id |-> "", before |-> <<>>]

\* NewDialogOverlay()
NewDialogOverlay ==
    /\ dialogs = <<>>
    /\ opened = 0
    /\ closed = {}
    /\ lastOp = NoOp

\* HasDialogs()
HasDialogs == Len(dialogs) > 0

\* ContainsDialog(dialogID)
ContainsDialog(dialogID) == \E i \in 1..Len(dialogs) : dialogs[i].id = dialogID

\* FrontDialog()
FrontDialog == IF Len(dialogs) = 0 THEN NilDialog ELSE dialogs[Len(dialogs)]

\* an OpenDialog that puts the dialog under the others
pushed_Under(ds, dialog) == <<dialog>> \o ds

\* append(o.dialogs, dialog)
pushed(ds, dialog) == Append(ds, dialog)

\* a CloseDialog that looks for the ID from the front of the stack
closeIndex_Newest(ds, dialogID) ==
    LET hits == {i \in 1..Len(ds) : ds[i].id = dialogID}
    IN IF hits = {} THEN 0 ELSE CHOOSE i \in hits : \A j \in hits : j <= i

\* the index the loop of CloseDialog stops at, 0 when it runs to the end
closeIndex(ds, dialogID) ==
    LET hits == {i \in 1..Len(ds) : ds[i].id = dialogID}
    IN IF hits = {} THEN 0 ELSE CHOOSE i \in hits : \A j \in hits : i <= j

\* append(o.dialogs[:i], o.dialogs[i+1:]...)
removeAt(ds, i) == SubSeq(ds, 1, i - 1) \o SubSeq(ds, i + 1, Len(ds))

\* what Dialog.Update(msg) returns: the dialog after the message
dialogUpdate(dialog) == [dialog EXCEPT !.msgs = @ + 1]

\* OpenDialog(dialog), for a dialog that has not been opened before
OpenDialog(dialogID) ==
    /\ opened < MaxOpens
    /\ dialogs' = pushed(dialogs, [id |-> dialogID, serial |-> opened + 1, msgs |-> 0])
    /\ opened' = opened + 1
    /\ closed' = closed
    /\ lastOp' = [op |-> "OpenDialog", id |-> dialogID, before |-> dialogs]
    /\ UNCHANGED <<now, ticks, limAll, cliVars>>

\* CloseDialog(dialogID)
CloseDialog(dialogID) ==
    /\ LET i == closeIndex(dialogs, dialogID)
       IN IF i = 0
          THEN dialogs' = dialogs /\ closed' = closed
          ELSE dialogs' = removeAt(dialogs, i) /\ closed' = closed \cup {dialogs[i].serial}
    /\ opened' = opened
    /\ lastOp' = [op |-> "CloseDialog", id |-> dialogID, before |-> dialogs]
    /\ UNCHANGED <<now, ticks, limAll, cliVars>>

\* CloseFrontDialog()
CloseFrontDialog ==
    /\ IF Len(dialogs) = 0
       THEN dialogs' = dialogs /\ closed' = closed
       ELSE /\ dialogs' = SubSeq(dialogs, 1, Len(dialogs) - 1)
            /\ closed' = closed \cup {dialogs[Len(dialogs)].serial}
    /\ opened' = opened
    /\ lastOp' = [op |-> "CloseFrontDialog", id |-> "", before |-> dialogs]
    /\ UNCHANGED <<now, ticks, limAll, cliVars>>

\* Update(msg)
Update ==
    /\ \A i \in 1..Len(dialogs) : dialogs[i].msgs < MaxMsgs
    /\ IF Len(dialogs) = 0
       THEN dialogs' = dialogs
       ELSE dialogs' = [dialogs EXCEPT ![Len(dialogs)] = dialogUpdate(@)]
    /\ lastOp' = [op |-> "Update", id |-> "", before |-> dialogs]
    /\ UNCHANGED <<now, ticks, opened, closed, limAll, cliVars>>

----------------------------------------------------------------------------
\* userAgents, by the browser each string names
userAgents == <<"golazo", "Chrome Mac", "Chrome Windows", "Chrome Linux", "Safari Mac">>

\* a rotation that stays on the first user agent
nextIndex_Stuck(i) == i

\* (r.userAgentIndex + 1) % len(userAgents)
nextIndex(i) == (i + 1) % Len(userAgents)

\* what the server answers to a search request: no answer (transport error),
\* or a status and a body. phrase: the body contains "rate limit", one of the
\* indicators of isCaptchaResponse; json: the body decodes as a search
\* response; html: the body contains "<html" or "<!DOCTYPE html"
NoResponse ==
    [transport |-> FALSE, status |-> 0, phrase |-> FALSE, json |-> FALSE, html |-> FALSE]

Responses ==
    {NoResponse} \cup [transport : {TRUE}, status : {200, 429}, phrase : BOOLEAN,
                       json : BOOLEAN, html : BOOLEAN]

\* isCaptchaResponse(body)
isCaptchaResponse(resp) == resp.phrase

\* a fetcher that counts an abuse signal for every response it rejects
signalsAbuse_AnyRejection(resp) ==
    resp.transport /\ (resp.status # 200 \/ isCaptchaResponse(resp))

\* PublicJSONFetcher.Search calls recordCaptchaError for this response
signalsAbuse(resp) ==
    resp.transport /\ resp.status = 200 /\ isCaptchaResponse(resp)

\* a fetcher that decodes the body first and looks for the indicator
\* phrases only in a body that does not decode
publicSearchErr_DecodeFirst(resp) ==
    IF ~resp.transport THEN "fetch from reddit"
    ELSE IF resp.status # 200
    THEN IF resp.phrase THEN "reddit API error: rate limit" ELSE "reddit API error"
    ELSE IF resp.json THEN "ok"
    ELSE IF isCaptchaResponse(resp) THEN "blocking requests (CAPTCHA/bot detection)"
    ELSE IF resp.html THEN "HTML instead of JSON (likely CAPTCHA or rate limit)"
    ELSE "parse response"

\* a fetcher that reports every undecodable body as a parse error
publicSearchErr_NoHTMLCheck(resp) ==
    IF ~resp.transport THEN "fetch from reddit"
    ELSE IF resp.status # 200
    THEN IF resp.phrase THEN "reddit API error: rate limit" ELSE "reddit API error"
    ELSE IF isCaptchaResponse(resp) THEN "blocking requests (CAPTCHA/bot detection)"
    ELSE IF ~resp.json THEN "parse response"
    ELSE "ok"

\* the error PublicJSONFetcher.Search returns for a response, "ok" for none.
\* The error of a status other than 200 quotes the body.
publicSearchErr(resp) ==
    IF ~resp.transport THEN "fetch from reddit"
    ELSE IF resp.status # 200
    THEN IF resp.phrase THEN "reddit API error: rate limit" ELSE "reddit API error"
    ELSE IF isCaptchaResponse(resp) THEN "blocking requests (CAPTCHA/bot detection)"
    ELSE IF ~resp.json
    THEN IF resp.html THEN "HTML instead of JSON (likely CAPTCHA or rate limit)"
         ELSE "parse response"
    ELSE "ok"

\* the error OAuthClient.Search returns for a response
oauthSearchErr(resp) ==
    IF ~resp.transport THEN "search request failed"
    ELSE IF resp.status # 200
    THEN IF resp.phrase THEN "OAuth search failed: rate limit" ELSE "OAuth search failed"
    ELSE IF ~resp.json THEN "parse search response"
    ELSE "ok"

\* the frame of a caller that is not inside a Search call of a fetcher
IdleSearch ==
    [ pc |-> "idle",        \* position of the caller
      kind |-> "none",      \* "public": PublicJSONFetcher, "oauth": OAuthClient
      agent |-> "",         \* the User-Agent of its request
      resp |-> NoResponse,  \* the response to its request
      err |-> "ok",         \* the error Search returns
      signalled |-> FALSE,  \* Search called recordCaptchaError
      waited |-> FALSE,     \* rateLimiter.wait() has returned
      token |-> "none",     \* what ensureValidToken returned
      sent |-> FALSE ]      \* httpClient.Do was called with the request

LimInit(rpm) ==
    /\ minInterval = newRateLimiter(rpm)
    /\ lastRequest = ZeroTime
    /\ captchaCount = 0
    /\ lastCaptchaTime = ZeroTime
    /\ mu = 0
    /\ wpc = [p \in FetchCallers |-> "idle"]
    /\ wakeAt = [p \in FetchCallers |-> 0]
    /\ userAgentIndex = 0
    /\ lastCaller = 0
    /\ prevCaller = 0
    /\ agentLog = <<>>
    /\ pub = [p \in FetchCallers |-> IdleSearch]
    /\ nWaits = 0
    /\ firstRequest = ZeroTime
    /\ prevRequest = ZeroTime
    /\ waitStart = 0
    /\ waitInterval = 0
    /\ waitElapsed = 0
    /\ waitSlept = 0
    /\ sigAtStart = 0
    /\ capAtStart = ZeroTime
    /\ nDoubled = 0

\* the clock advances
Tick ==
    /\ ticks < MaxTicks
    /\ \E d \in TickSteps : now' = now + d
    /\ ticks' = ticks + 1
    /\ UNCHANGED <<uiVars, limAll, cliVars>>

\* r.mu.Lock() returns only while no caller holds the lock
canLock_NoMutex == TRUE

canLock == mu = 0

\* wait(): take the lock, compute the interval, start sleeping
waitEnter(p) ==
    /\ wpc[p] = "idle"
    /\ canLock
    /\ nWaits < MaxWaits
    /\ mu' = p
    /\ wpc' = [wpc EXCEPT ![p] = "sleep"]
    /\ wakeAt' = [wakeAt EXCEPT ![p] = now + sleepFor]
    /\ waitStart' = now
    /\ waitInterval' = currentInterval
    /\ waitElapsed' = Since(lastRequest)
    /\ waitSlept' = sleepFor
    /\ sigAtStart' = captchaCount
    /\ capAtStart' = lastCaptchaTime
    /\ nDoubled' = IF currentInterval > minInterval THEN nDoubled + 1 ELSE nDoubled
    /\ UNCHANGED <<now, ticks, uiVars, minInterval, lastRequest, captchaCount,
                   lastCaptchaTime, nWaits, firstRequest, prevRequest,
                   userAgentIndex, lastCaller, prevCaller, agentLog, cliVars>>

\* wait(): the sleep is over, record time.Now() and release the lock
waitReturn(p) ==
    /\ wpc[p] = "sleep"
    /\ mu = p
    /\ now' = IF now < wakeAt[p] THEN wakeAt[p] ELSE now
    /\ lastRequest' = now'
    /\ prevRequest' = lastRequest
    /\ firstRequest' = IF nWaits = 0 THEN now' ELSE firstRequest
    /\ nWaits' = nWaits + 1
    /\ mu' = 0
    /\ wpc' = [wpc EXCEPT ![p] = "idle"]
    /\ lastCaller' = p
    /\ prevCaller' = lastCaller
    /\ UNCHANGED <<ticks, uiVars, minInterval, captchaCount, lastCaptchaTime, wakeAt,
                   waitStart, waitInterval, waitElapsed, waitSlept,
                   sigAtStart, capAtStart, nDoubled, userAgentIndex, agentLog,
                   cliVars>>

\* recordCaptchaError()
recordCaptchaError ==
    /\ mu = 0
    /\ captchaCount < MaxSignals
    /\ captchaCount' = captchaCount + 1
    /\ lastCaptchaTime' = now
    /\ UNCHANGED <<now, ticks, uiVars, minInterval, lastRequest, mu, wpc, wakeAt,
                   nWaits, firstRequest, prevRequest, waitStart, waitInterval,
                   waitElapsed, waitSlept, sigAtStart, capAtStart, nDoubled,
                   userAgentIndex, lastCaller, prevCaller, agentLog, cliVars>>

\* getNextUserAgent()
getNextUserAgent(p) ==
    /\ mu = 0
    /\ Len(agentLog) < MaxAgents
    /\ agentLog' = Append(agentLog, userAgents[userAgentIndex + 1])
    /\ userAgentIndex' = nextIndex(userAgentIndex)
    /\ UNCHANGED <<now, ticks, uiVars, minInterval, lastRequest, captchaCount,
                   lastCaptchaTime, mu, wpc, wakeAt, nWaits, firstRequest,
                   prevRequest, waitStart, waitInterval, waitElapsed, waitSlept,
                   sigAtStart, capAtStart, nDoubled, lastCaller, prevCaller,
                   cliVars>>

\* the fetcher the modelled limiter belongs to: NewOAuthClient builds its own
\* limiter with 10 requests a minute, NewPublicJSONFetcher one with 5
limiterOwner == IF minInterval = newRateLimiter(OAuthRPM) THEN "oauth" ELSE "public"

\* Search of the fetcher is called: f.rateLimiter.wait() takes the lock
fetcherSearch(p) ==
    /\ pub[p].pc = "idle"
    /\ waitEnter(p)
    /\ pub' = [pub EXCEPT ![p] = [IdleSearch EXCEPT !.pc = "wait",
                                                    !.kind = limiterOwner]]

\* wait() returns; OAuthClient.Search goes on to its request with the
\* User-Agent of the account
fetcherSearchWaited(p) ==
    /\ pub[p].pc = "wait"
    /\ waitReturn(p)
    /\ pub' = [pub EXCEPT ![p].pc = IF pub[p].kind = "public" THEN "agent" ELSE "http",
                          ![p].waited = TRUE,
                          ![p].agent = IF pub[p].kind = "public" THEN "" ELSE "username"]

\* PublicJSONFetcher.Search sets the User-Agent of its request
publicSearchAgent(p) ==
    /\ pub[p].pc = "agent"
    /\ getNextUserAgent(p)
    /\ pub' = [pub EXCEPT ![p].pc = "http",
                          ![p].agent = userAgents[userAgentIndex + 1]]

\* PublicJSONFetcher.Search gets the response and classifies it
publicSearchResponse(p) ==
    /\ pub[p].pc = "http"
    /\ pub[p].kind = "public"
    /\ \E resp \in Responses :
          /\ IF signalsAbuse(resp)
             THEN recordCaptchaError
             ELSE UNCHANGED <<now, ticks, uiVars, limVars, cliVars>>
          /\ pub' = [pub EXCEPT ![p].pc = "done", ![p].resp = resp,
                                ![p].sent = TRUE,
                                ![p].err = publicSearchErr(resp),
                                ![p].signalled = signalsAbuse(resp)]

\* OAuthClient.Search gets the response and classifies it
oauthSearchResponse(p) ==
    /\ pub[p].pc = "http"
    /\ pub[p].kind = "oauth"
    /\ \E resp \in Responses :
          pub' = [pub EXCEPT ![p].pc = "done", ![p].resp = resp,
                             ![p].sent = TRUE,
                             ![p].err = oauthSearchErr(resp)]
    /\ UNCHANGED <<now, ticks, uiVars, limVars, cliVars>>

\* Search returns to its caller
fetcherSearchReturn(p) ==
    /\ pub[p].pc = "done"
    /\ pub' = [pub EXCEPT ![p] = IdleSearch]
    /\ UNCHANGED <<now, ticks, uiVars, limVars, cliVars>>

----------------------------------------------------------------------------
(* Data of the Client *)

\* Bounds of the model
MaxResults == 1
MaxPair == 2
MaxGoals == 3
MaxBatch == 11

\* Program constants
BatchSize == 5
BatchDelay == 2
maxRetries == 3
baseDelay == 30
RefreshMargin == 300

Callers == {1, 2}

\* GoalInfo values handed to the client: two goals share the key (555, 23)
Goals ==
    { [MatchID |-> 555, Minute |-> 23, IsHomeTeam |-> TRUE],
      [MatchID |-> 555, Minute |-> 23, IsHomeTeam |-> FALSE],
      [MatchID |-> 555, Minute |-> 67, IsHomeTeam |-> TRUE] }

\* GoalLinkKey{MatchID: goal.MatchID, Minute: goal.Minute}
GoalLinkKey(goal) == <<goal.MatchID, goal.Minute>>

\* the goals of one match with many goals, one goal per minute
BatchGoal(n) == [MatchID |-> 777, Minute |-> n, IsHomeTeam |-> TRUE]

\* GoalLinks arguments with n goals of n different keys
BatchInput(n) == [i \in 1..n |-> BatchGoal(i)]

Keys == {GoalLinkKey(g) : g \in Goals \cup {BatchGoal(n) : n \in 1..MaxBatch}}

URLs == {"u1", "u2"}

\* a nil *GoalLink
NilLink == "nil"
\* the cached "searched, nothing found" marker
NotFoundMarker == "notfound"
\* a nil error
NoErr == "ok"
\* no goal in hand
NoGoal == [MatchID |-> 0, Minute |-> 0, IsHomeTeam |-> FALSE]

\* SearchResult: Title tells whether the title names the scoring team and the
\* minute of the goal searched for
SearchResults == [URL : URLs, Title : {"goal", "other"}]

SeqsUpTo(S, n) == UNION {[1..k -> S] : k \in 0..n}

ResultLists == SeqsUpTo(SearchResults, MaxResults)

\* the answers of a fetcher that returns up to MaxPair posts for a query
PairLists == SeqsUpTo(SearchResults, MaxPair)

GoalLists == SeqsUpTo(Goals, MaxGoals)

\* error classes of PublicJSONFetcher.Search and OAuthClient.Search
PublicErrs == {"blocking requests (CAPTCHA/bot detection)", "fetch from reddit"}
OAuthErrs == {"search request failed"}
TokenErr == "token validation failed"

\* query1 / query2 of searchForGoalOnce: the team names and the minute
query1(goal) == [home |-> TRUE, away |-> TRUE, minute |-> goal.Minute]
query2(goal) ==
    [home |-> goal.IsHomeTeam, away |-> ~goal.IsHomeTeam, minute |-> goal.Minute]

\* findBestMatch(results, goal): the first hit whose title names the scoring
\* team and the minute, 0 when there is none
findBestMatch(results) ==
    LET good == {i \in 1..Len(results) : results[i].Title = "goal"}
    IN IF good = {} THEN 0 ELSE CHOOSE i \in good : \A j \in good : i <= j

\* a merge that keeps every result of both queries
uniqueResults_NoDedupe(allResults) == allResults

\* duplicates removed by URL, first occurrence kept, order kept
uniqueResults(allResults) ==
    LET keep(i) == \A j \in 1..(i - 1) : allResults[j].URL # allResults[i].URL
        idx == {i \in 1..Len(allResults) : keep(i)}
        F[k \in 0..Len(allResults)] ==
            IF k = 0 THEN <<>>
            ELSE IF k \in idx THEN Append(F[k - 1], allResults[k]) ELSE F[k - 1]
    IN F[Len(allResults)]

\* the URL of the match in results, NilLink when there is none
matchLink(results) ==
    IF findBestMatch(results) = 0 THEN NilLink
    ELSE results[findBestMatch(results)].URL

\* IsNotFound(link)
IsNotFound(entry) == entry = NotFoundMarker

\* cache.Get(key): NilLink when the key has no entry
cacheGet(key) == cache[key]

\* cache.Set(link) / cache.SetNotFound(matchID, minute); a failed write leaves
\* the cache as it was
cacheSet(key, value, ok) == IF ok THEN [cache EXCEPT ![key] = value] ELSE cache

\* cache.Clear()
cacheClear == [k \in Keys |-> NilLink]

\* an IsAvailable that does not look at the expiry
IsAvailable_IgnoresExpiry == accessToken # ""

\* OAuthClient.IsAvailable()
IsAvailable == accessToken # "" /\ now < tokenExpiry

\* tokenValid of ensureValidToken: the check under the read lock
tokenValid == accessToken # "" /\ now < tokenExpiry - RefreshMargin

\* the second check of ensureValidToken, under the write lock
tokenStale == accessToken = "" \/ now > tokenExpiry - RefreshMargin

\* the strings searchForGoal looks for in err.Error() before it retries
isRetryable(err) ==
    err \in {"blocking requests (CAPTCHA/bot detection)",
             "HTML instead of JSON (likely CAPTCHA or rate limit)",
             "reddit API error: rate limit",
             "OAuth search failed: rate limit"}

----------------------------------------------------------------------------
(* Frames: the local state of one caller inside GoalLink / GoalLinks *)

NoResults == <<>>

IdleFrame ==
    [ pc |-> "idle",          \* position of the caller
      mode |-> "none",        \* "one": GoalLink, "many": GoalLinks
      \* GoalLink / searchForGoal / searchForGoalOnce
      goal |-> NoGoal,
      fetcher |-> "none",     \* the fetcher picked by searchForGoal
      pick |-> <<>>,          \* the token and the clock when it was picked
      attempt |-> 0,          \* loop variable of searchForGoal
      allResults |-> <<>>,    \* allResults of searchForGoalOnce
      merged |-> <<>>,        \* uniqueResults of the last searchForGoalOnce
      link |-> NilLink,       \* link returned by GoalLink
      err |-> NoErr,          \* error returned by GoalLink
      \* GoalLinks
      goals |-> <<>>,
      i |-> 0,                \* goals scanned so far
      seen |-> {},
      uncachedGoals |-> <<>>,
      results |-> NoResults,
      j |-> 0,                \* uncached goals resolved so far
      \* observation of the current GoalLink call
      entry |-> NilLink,      \* what cache.Get returned
      prior |-> NilLink,      \* resolved[key] when the call started
      slog |-> <<>>,          \* Search calls: query and error, in order
      nAttempts |-> 0,        \* searchForGoalOnce calls
      wlog |-> <<>>,          \* cache writes: value and success
      sleeps |-> <<>>,        \* retry sleeps, in seconds
      \* observation of the current GoalLinks call
      work |-> <<>>,          \* goals handed to GoalLink, in order
      scanned |-> NoResults,  \* cache.Get results of the scan, by key
      got |-> NoResults,      \* GoalLink returns, by key
      batchSleeps |-> 0,      \* seconds slept between batches
      sleptBefore |-> <<>>,   \* indices into uncachedGoals a sleep came before
      searchedKeys |-> {} ]   \* keys a Search call was made for

\* the fields of one GoalLink call, cleared when it starts
ClearCall(f) ==
    [f EXCEPT !.goal = NoGoal, !.fetcher = "none", !.pick = <<>>, !.attempt = 0,
              !.allResults = <<>>, !.merged = <<>>, !.link = NilLink, !.err = NoErr,
              !.entry = NilLink, !.prior = NilLink, !.slog = <<>>,
              !.nAttempts = 0,
              !.wlog = <<>>, !.sleeps = <<>>]

\* a cache hit as GoalLink tests it: link != nil
cacheHit_OnlyNotFound(entry) == entry = NotFoundMarker

cacheHit_OnlyFound(entry) == entry \in URLs

cacheHit(entry) == entry # NilLink

\* GoalLink, from its entry to the return on a cache hit or the call of
\* searchForGoal on a miss
GoalLinkEntry(f, goal) ==
    LET entry == cacheGet(GoalLinkKey(goal))
        f1 == [ClearCall(f) EXCEPT !.goal = goal, !.entry = entry,
                                   !.prior = resolved[GoalLinkKey(goal)]]
    IN IF cacheHit(entry)
       THEN [f1 EXCEPT !.pc = "gl_done",
                       !.link = IF IsNotFound(entry) THEN NilLink ELSE entry,
                       !.err = NoErr]
       ELSE [f1 EXCEPT !.pc = "sfg"]

\* GoalLink after searchForGoal returned (link, err)
GoalLinkAfterSearch(f, link, err) ==
    IF err # NoErr
    THEN [f EXCEPT !.pc = "gl_done", !.link = NilLink, !.err = err]
    ELSE [f EXCEPT !.pc = "gl_set", !.link = link, !.err = NoErr]

\* the error searchForGoalOnce returns: nil at each of its three returns,
\* whatever its Search calls returned
searchForGoalOnceErr(slog) == NoErr

\* searchForGoal after searchForGoalOnce returned (result, err)
searchForGoalAfterOnce(f, result, err) ==
    IF f.fetcher = "oauth"
    THEN IF err # NoErr
         THEN GoalLinkAfterSearch(f, NilLink, err)
         ELSE GoalLinkAfterSearch(f, result, NoErr)
    ELSE IF err = NoErr
         THEN GoalLinkAfterSearch(f, result, NoErr)
         ELSE IF isRetryable(err) /\ f.attempt < maxRetries - 1
              THEN [f EXCEPT !.attempt = f.attempt + 1,
                             !.sleeps = Append(@, (f.attempt + 1) * baseDelay),
                             !.allResults = <<>>,
                             !.pc = "q1"]
              ELSE GoalLinkAfterSearch(f, NilLink, err)

\* what one Search call of the fetcher can return. hang: ensureValidToken
\* locks tokenMutex and the token exchange succeeds, so that refreshToken /
\* authenticate lock tokenMutex again and never return.
SearchOutcomes(fetcher) ==
    LET hits == {[hang |-> FALSE, err |-> NoErr, results |-> r] : r \in ResultLists}
        fail(E) == {[hang |-> FALSE, err |-> e, results |-> <<>>] : e \in E}
    IN IF fetcher = "public"
       THEN CASE fetcherScript = "empty" ->
                     {[hang |-> FALSE, err |-> NoErr, results |-> <<>>]}
              [] fetcherScript = "match" ->
                     {[hang |-> FALSE, err |-> NoErr,
                       results |-> <<[URL |-> "u1", Title |-> "goal"]>>]}
              [] fetcherScript = "blocked" ->
                     fail({"blocking requests (CAPTCHA/bot detection)"})
              [] fetcherScript = "pairs" ->
                     {[hang |-> FALSE, err |-> NoErr, results |-> r] : r \in PairLists}
                         \cup fail(PublicErrs)
              [] OTHER -> hits \cup fail(PublicErrs)
       ELSE IF tokenValid \/ ~tokenStale THEN hits \cup fail(OAuthErrs)
       ELSE fail({TokenErr}) \cup {[hang |-> TRUE, err |-> NoErr, results |-> <<>>]}

Logged(f, query, o) ==
    [f EXCEPT !.slog = Append(@, [attempt |-> f.attempt, query |-> query,
                                  err |-> o.err, hang |-> o.hang,
                                  results |-> o.results,
                                  matched |-> findBestMatch(o.results) # 0]),
              !.nAttempts = IF f.pc = "q1" THEN @ + 1 ELSE @,
              !.searchedKeys = @ \cup {GoalLinkKey(f.goal)}]

\* a searchForGoalOnce that goes on to the secondary query after a match
afterPrimary_NoShortCircuit(f, o) ==
    [f EXCEPT !.pc = "q2",
              !.allResults = IF o.err = NoErr THEN o.results ELSE <<>>]

\* a searchForGoalOnce that returns the error of its primary Search
afterPrimary_ReturnsOnError(f, o) ==
    IF o.err # NoErr
    THEN searchForGoalAfterOnce(f, NilLink, o.err)
    ELSE IF findBestMatch(o.results) # 0
    THEN searchForGoalAfterOnce(f, matchLink(o.results), NoErr)
    ELSE [f EXCEPT !.pc = "q2", !.allResults = o.results]

\* searchForGoalOnce after the primary Search returned o
afterPrimary(f, o) ==
    IF o.err = NoErr /\ findBestMatch(o.results) # 0
    THEN searchForGoalAfterOnce(f, matchLink(o.results), searchForGoalOnceErr(f.slog))
    ELSE [f EXCEPT !.pc = "q2",
                   !.allResults = IF o.err = NoErr THEN o.results ELSE <<>>]

\* searchForGoalOnce after the secondary Search returned o
afterSecondary(f, o) ==
    LET all == IF o.err = NoErr THEN f.allResults \o o.results ELSE f.allResults
    IN searchForGoalAfterOnce([f EXCEPT !.allResults = <<>>,
                                        !.merged = uniqueResults(all)],
                              matchLink(uniqueResults(all)),
                              searchForGoalOnceErr(f.slog))

\* the value GoalLink writes to the cache
writtenValue(link) == IF link # NilLink THEN link ELSE NotFoundMarker

\* GoalLinks keeps the link GoalLink returned
keepsLink_AnyLink(link, err) == err = NoErr

keepsLink(link, err) == err = NoErr /\ link # NilLink

\* a scan that does not skip the keys it has seen
scanGoal_NoDedupe(f) ==
    LET goal == f.goals[f.i + 1]
        key == GoalLinkKey(goal)
        entry == cacheGet(key)
        f2 == [f EXCEPT !.i = f.i + 1,
                        !.pc = IF f.i + 1 = Len(f.goals) THEN "gls_loop" ELSE "gls_scan",
                        !.seen = @ \cup {key},
                        !.scanned = (key :> entry) @@ f.scanned]
    IN IF entry # NilLink
       THEN IF ~IsNotFound(entry)
            THEN [f2 EXCEPT !.results = (key :> entry) @@ f.results]
            ELSE f2
       ELSE [f2 EXCEPT !.uncachedGoals = Append(@, goal)]

\* a scan that sends the keys cached as NotFound to GoalLink again
scanGoal_RetryNotFound(f) ==
    LET goal == f.goals[f.i + 1]
        key == GoalLinkKey(goal)
        entry == cacheGet(key)
        f1 == [f EXCEPT !.i = f.i + 1,
                        !.pc = IF f.i + 1 = Len(f.goals) THEN "gls_loop" ELSE "gls_scan"]
    IN IF key \in f.seen THEN f1
       ELSE LET f2 == [f1 EXCEPT !.seen = @ \cup {key},
                                 !.scanned = (key :> entry) @@ f.scanned]
            IN IF entry # NilLink /\ ~IsNotFound(entry)
               THEN [f2 EXCEPT !.results = (key :> entry) @@ f.results]
               ELSE [f2 EXCEPT !.uncachedGoals = Append(@, goal)]

\* GoalLinks: the scan of goals[i]
scanGoal(f) ==
    LET goal == f.goals[f.i + 1]
        key == GoalLinkKey(goal)
        entry == cacheGet(key)
        f1 == [f EXCEPT !.i = f.i + 1,
                        !.pc = IF f.i + 1 = Len(f.goals) THEN "gls_loop" ELSE "gls_scan"]
    IN IF key \in f.seen THEN f1
       ELSE LET f2 == [f1 EXCEPT !.seen = @ \cup {key},
                                 !.scanned = (key :> entry) @@ f.scanned]
            IN IF entry # NilLink
               THEN IF ~IsNotFound(entry)
                    THEN [f2 EXCEPT !.results = (key :> entry) @@ f.results]
                    ELSE f2
               ELSE [f2 EXCEPT !.uncachedGoals = Append(@, goal)]

----------------------------------------------------------------------------
(* Construction *)

\* token responses the initial authenticate() of NewOAuthClient can store
OAuthResponses ==
    { [AccessToken |-> "", RefreshToken |-> "", ExpiresIn |-> 0],
      [AccessToken |-> "t1", RefreshToken |-> "", ExpiresIn |-> 3600],
      [AccessToken |-> "t1", RefreshToken |-> "r1", ExpiresIn |-> 3600] }

\* the four environment variables NewOAuthClient reads
Credentials ==
    {"REDDIT_CLIENT_ID", "REDDIT_CLIENT_SECRET", "REDDIT_USERNAME", "REDDIT_PASSWORD"}

\* what the token endpoint answers to authenticate() / refreshToken(): an
\* error (request failed, status other than 200, unparsable body) or a token
\* response
TokenReplies ==
    {[ok |-> FALSE, resp |-> [AccessToken |-> "", RefreshToken |-> "", ExpiresIn |-> 0]]}
    \cup {[ok |-> TRUE, resp |-> r] : r \in OAuthResponses}

\* the frame of a caller that is not inside the token code
IdleToken ==
    [ pc |-> "idle",            \* position of the caller
      inNew |-> FALSE,          \* authenticate() called by NewOAuthClient
      kind |-> "none",          \* the exchange whose response is in hand
      resp |-> [AccessToken |-> "", RefreshToken |-> "", ExpiresIn |-> 0],
      err |-> NoErr,            \* error returned by ensureValidToken
      \* observation of the current ensureValidToken call
      startClass |-> "none",    \* the token against the clock at the call
      startRefresh |-> FALSE,   \* a refresh token was held at the call
      startToken |-> <<>>,      \* the three token fields at the call
      nRefresh |-> 0,           \* refresh exchanges made
      nAuth |-> 0,              \* authenticate exchanges made
      refreshFailed |-> FALSE,  \* the refresh exchange failed
      authOK |-> FALSE ]        \* the authenticate exchange succeeded

\* the fields of ctor once a client is in hand
Built == [state |-> "done", creds |-> {}, oauth |-> "nil", client |-> TRUE,
          err |-> NoErr, exchanges |-> 0]

\* fetchers a test hands to NewClientWithFetcher: one that answers every
\* query with nothing, with one matching post, or with the blocked error;
\* "any" is a fetcher that may answer anything
FetcherScripts == {"empty", "match", "blocked"}

\* NewClientWithFetcher: no OAuth client, the given fetcher, the given cache
NewClientWithFetcher ==
    /\ oauthFetcher = FALSE
    /\ accessToken = ""
    /\ refreshTokenValue = ""
    /\ tokenExpiry = ZeroTime
    /\ tokenMutex = 0
    /\ tk = [p \in Callers |-> IdleToken]
    /\ ctor = Built
    /\ cache = cacheClear
    /\ fr = [p \in Callers |-> IdleFrame]
    /\ resolved = [k \in Keys |-> NilLink]

\* NewClient with the four credentials set and authenticate() successful
NewClientOAuth ==
    /\ oauthFetcher = TRUE
    /\ \E resp \in OAuthResponses :
          /\ accessToken = resp.AccessToken
          /\ refreshTokenValue = resp.RefreshToken
          /\ tokenExpiry = now + resp.ExpiresIn
    /\ tokenMutex = 0
    /\ tk = [p \in Callers |-> IdleToken]
    /\ ctor = [Built EXCEPT !.creds = Credentials, !.oauth = "client",
                            !.exchanges = 1]
    /\ cache = cacheClear
    /\ fr = [p \in Callers |-> IdleFrame]
    /\ resolved = [k \in Keys |-> NilLink]

\* NewClient: without credentials NewOAuthClient returns nil
NewClient == NewClientWithFetcher \/ NewClientOAuth

\* the process before NewClient is called, with creds the credentials that
\* are set (non-empty) in its environment
NotBuilt(creds) ==
    /\ oauthFetcher = FALSE
    /\ accessToken = ""
    /\ refreshTokenValue = ""
    /\ tokenExpiry = ZeroTime
    /\ tokenMutex = 0
    /\ tk = [p \in Callers |-> IdleToken]
    /\ ctor = [state |-> "none",   \* "none", "auth" (inside NewOAuthClient), "done"
               creds |-> creds,     \* the credentials that are set
               oauth |-> "none",    \* NewOAuthClient returned "nil", "client", "error"
               client |-> FALSE,    \* NewClient returned a client
               err |-> NoErr,       \* the error NewClient returned
               exchanges |-> 0]     \* token exchanges made by NewOAuthClient
    /\ cache = cacheClear
    /\ fr = [p \in Callers |-> IdleFrame]
    /\ resolved = [k \in Keys |-> NilLink]

----------------------------------------------------------------------------
(* Operations of the Client *)

\* the clock reaches the refresh margin of the token, a later second before
\* its expiry, or its expiry
tokenClock ==
    /\ \E t \in {tokenExpiry - RefreshMargin, tokenExpiry - 1, tokenExpiry} :
          t > now /\ now' = t
    /\ UNCHANGED <<ticks, uiVars, limAll, cliVars>>

\* a caller enters GoalLink(goal): lines up to the cache check
GoalLink(p, goal) ==
    /\ ctor.client
    /\ fr[p].pc = "idle"
    /\ fr' = [fr EXCEPT ![p] = GoalLinkEntry([IdleFrame EXCEPT !.mode = "one"], goal)]
    /\ UNCHANGED <<now, ticks, uiVars, limAll, tokVars, cache, fetcherScript, resolved>>

\* searchForGoal picks the fetcher
searchForGoal(p) ==
    /\ fr[p].pc = "sfg"
    /\ oauthFetcher => tokenMutex = 0
    /\ fr' = [fr EXCEPT ![p].fetcher =
                            IF oauthFetcher /\ IsAvailable THEN "oauth" ELSE "public",
                        ![p].pick = <<accessToken, refreshTokenValue, tokenExpiry,
                                      tokenMutex, now>>,
                        ![p].attempt = 0,
                        ![p].pc = "q1"]
    /\ UNCHANGED <<now, ticks, uiVars, limAll, tokVars, cache, fetcherScript, resolved>>

\* one Search call of searchForGoalOnce and what follows it up to the next
\* Search call or the cache write
Search(p, primary) ==
    /\ fr[p].fetcher = "oauth" => tokenMutex = 0
    /\ \E o \in SearchOutcomes(fr[p].fetcher) :
          LET query == IF primary THEN query1(fr[p].goal) ELSE query2(fr[p].goal)
              f == Logged(fr[p], query, o)
          IN IF o.hang
             THEN /\ fr' = [fr EXCEPT ![p] = [f EXCEPT !.pc = "hung"]]
                  /\ tokenMutex' = p
             ELSE /\ fr' = [fr EXCEPT ![p] =
                              IF primary THEN afterPrimary(f, o)
                              ELSE afterSecondary(f, o)]
                  /\ tokenMutex' = tokenMutex
    /\ UNCHANGED <<now, ticks, uiVars, limAll, oauthFetcher, accessToken,
                   refreshTokenValue, tokenExpiry, tk, ctor, cache,
                   fetcherScript, resolved>>

\* Strategy 1: both teams + minute, at the start of searchForGoalOnce
searchPrimary(p) ==
    /\ fr[p].pc = "q1"
    /\ Search(p, TRUE)

\* Strategy 2: the scoring team + minute
searchSecondary(p) ==
    /\ fr[p].pc = "q2"
    /\ Search(p, FALSE)

\* a GoalLink that returns the error of a failed cache write
GoalLinkAfterWrite_ReturnsWriteError(f, ok) ==
    IF ok THEN [f EXCEPT !.pc = "gl_done"]
    ELSE [f EXCEPT !.pc = "gl_done", !.link = NilLink, !.err = "cache write"]

\* GoalLink after cache.Set / cache.SetNotFound returned: the error of the
\* write is dropped (_ =) and (link, nil) is returned
GoalLinkAfterWrite(f, ok) == [f EXCEPT !.pc = "gl_done"]

\* GoalLink writes the outcome to the cache and ignores the write's error
cacheWrite(p) ==
    /\ fr[p].pc = "gl_set"
    /\ \E ok \in BOOLEAN :
          LET f == fr[p]
              value == writtenValue(f.link)
          IN /\ cache' = cacheSet(GoalLinkKey(f.goal), value, ok)
             /\ resolved' = IF ok THEN [resolved EXCEPT ![GoalLinkKey(f.goal)] = f.link]
                            ELSE resolved
             /\ fr' = [fr EXCEPT ![p] = GoalLinkAfterWrite(
                            [f EXCEPT !.wlog = Append(@, [value |-> value, ok |-> ok])],
                            ok)]
    /\ UNCHANGED <<now, ticks, uiVars, limAll, tokVars, fetcherScript>>

\* a caller enters GoalLinks(goals)
GoalLinks(p, goals) ==
    /\ ctor.client
    /\ fr[p].pc = "idle"
    /\ fr' = [fr EXCEPT ![p] = [IdleFrame EXCEPT
                  !.mode = "many", !.goals = goals,
                  !.pc = IF Len(goals) = 0 THEN "gls_loop" ELSE "gls_scan"]]
    /\ UNCHANGED <<now, ticks, uiVars, limAll, tokVars, cache, fetcherScript, resolved>>

\* GoalLinks: de-duplication and cache check of the next goal
GoalLinksScan(p) ==
    /\ fr[p].pc = "gls_scan"
    /\ fr' = [fr EXCEPT ![p] = scanGoal(fr[p])]
    /\ UNCHANGED <<now, ticks, uiVars, limAll, tokVars, cache, fetcherScript, resolved>>

\* a GoalLinks that sleeps before every batch, the first too
batchPause_EveryBatch(i) == IF i % BatchSize = 0 THEN BatchDelay ELSE 0

\* the time.Sleep of GoalLinks before uncachedGoals[i] (counted from 0): the
\* outer loop steps i by BatchSize and sleeps BatchDelay when i > 0
batchPause(i) == IF i > 0 /\ i % BatchSize = 0 THEN BatchDelay ELSE 0

\* a loop that takes the uncached goals from the end of the list
nextGoal_FromEnd(f) == f.uncachedGoals[Len(f.uncachedGoals) - f.j]

\* the goal the loops of GoalLinks over uncachedGoals[i:end] reach next
nextGoal(f) == f.uncachedGoals[f.j + 1]

\* GoalLinks: the next uncached goal goes to GoalLink, after the batch delay
\* at the start of every batch but the first; or the loop ends
GoalLinksNext(p) ==
    /\ fr[p].pc = "gls_loop"
    /\ LET f == fr[p]
       IN IF f.j < Len(f.uncachedGoals)
          THEN LET goal == nextGoal(f)
                   f1 == [f EXCEPT !.work = Append(@, goal),
                                   !.batchSleeps = @ + batchPause(f.j),
                                   !.sleptBefore =
                                       IF batchPause(f.j) > 0
                                       THEN Append(@, f.j) ELSE @]
               IN /\ fr' = [fr EXCEPT ![p] = GoalLinkEntry(f1, goal)]
                  /\ now' = now + batchPause(f.j)
          ELSE /\ fr' = [fr EXCEPT ![p].pc = "gls_done"]
               /\ now' = now
    /\ UNCHANGED <<ticks, uiVars, limAll, tokVars, cache, fetcherScript, resolved>>

\* a Search call of the GoalLink call in f returned an error
searchFailed(f) == \E i \in 1..Len(f.slog) : f.slog[i].err # NoErr

\* a GoalLinks that gives up at the first goal whose resolution failed
collectNext_StopOnFailure(err, failed) ==
    IF err # NoErr \/ failed THEN "gls_done" ELSE "gls_loop"

\* GoalLinks after GoalLink returned: on to the next goal of the batch,
\* whatever GoalLink returned
collectNext(err, failed) == "gls_loop"

\* GoalLinks: GoalLink returned (link, err) for uncachedGoals[j]
GoalLinksCollect(p) ==
    /\ fr[p].pc = "gl_done"
    /\ fr[p].mode = "many"
    /\ LET f == fr[p]
           key == GoalLinkKey(f.goal)
           f1 == [ClearCall(f) EXCEPT
                           !.j = f.j + 1,
                           !.got = (key :> [link |-> f.link, err |-> f.err,
                                            failed |-> searchFailed(f)]) @@ f.got,
                           !.pc = collectNext(f.err, searchFailed(f))]
       IN fr' = [fr EXCEPT ![p] =
                    IF keepsLink(f.link, f.err)
                    THEN [f1 EXCEPT !.results = (key :> f.link) @@ f.results]
                    ELSE f1]
    /\ UNCHANGED <<now, ticks, uiVars, limAll, tokVars, cache, fetcherScript, resolved>>

\* GoalLink or GoalLinks returns to its caller
Return(p) ==
    /\ \/ fr[p].pc = "gl_done" /\ fr[p].mode = "one"
       \/ fr[p].pc = "gls_done"
    /\ fr' = [fr EXCEPT ![p] = IdleFrame]
    /\ UNCHANGED <<now, ticks, uiVars, limAll, tokVars, cache, fetcherScript, resolved>>

\* Client.ClearCache()
ClearCache(p) ==
    /\ ctor.client
    /\ fr[p].pc = "idle"
    /\ cache' = cacheClear
    /\ resolved' = [k \in Keys |-> NilLink]
    /\ UNCHANGED <<now, ticks, uiVars, limAll, tokVars, fr, fetcherScript>>

----------------------------------------------------------------------------
(* Construction and the token of the OAuthClient *)

\* NewOAuthClient finds all four credentials non-empty
configured_AnyCredential(creds) == creds # {}

configured(creds) == creds = Credentials

\* NewClient() up to the token exchange of NewOAuthClient, or to its return
\* when the cache cannot be created or a credential is missing
NewClientCall(p) ==
    /\ ctor.state = "none"
    /\ \E cacheOk \in BOOLEAN :
          IF ~cacheOk
          THEN /\ ctor' = [ctor EXCEPT !.state = "done", !.client = FALSE,
                                       !.err = "create cache"]
               /\ tk' = tk
          ELSE IF ~configured(ctor.creds)
          THEN /\ ctor' = [ctor EXCEPT !.state = "done", !.oauth = "nil",
                                       !.client = TRUE]
               /\ tk' = tk
          ELSE /\ ctor' = [ctor EXCEPT !.state = "auth"]
               /\ tk' = [tk EXCEPT ![p] = [IdleToken EXCEPT !.pc = "auth",
                                                            !.inNew = TRUE]]
    /\ UNCHANGED <<now, ticks, uiVars, limAll, oauthFetcher, accessToken,
                   refreshTokenValue, tokenExpiry, tokenMutex, cache, fr,
                   fetcherScript, resolved>>

\* authenticate(): the password-grant exchange, up to tokenMutex.Lock(). A
\* failed exchange returns the error: NewOAuthClient and NewClient return
\* it with no client, ensureValidToken returns it and releases tokenMutex.
authenticate(p) ==
    /\ tk[p].pc = "auth"
    /\ \E reply \in TokenReplies :
          LET f == [tk[p] EXCEPT !.nAuth = @ + 1]
          IN IF reply.ok
             THEN /\ tk' = [tk EXCEPT ![p] = [f EXCEPT !.pc = "store", !.kind = "auth",
                                                      !.resp = reply.resp,
                                                      !.authOK = TRUE]]
                  /\ ctor' = IF f.inNew THEN [ctor EXCEPT !.exchanges = @ + 1] ELSE ctor
                  /\ tokenMutex' = tokenMutex
             ELSE IF f.inNew
             THEN /\ tk' = [tk EXCEPT ![p] = IdleToken]
                  /\ ctor' = [ctor EXCEPT !.state = "done", !.client = FALSE,
                                          !.oauth = "error",
                                          !.exchanges = @ + 1,
                                          !.err = "OAuth client initialization failed"]
                  /\ tokenMutex' = tokenMutex
             ELSE /\ tk' = [tk EXCEPT ![p] = [f EXCEPT !.pc = "ret", !.err = "auth failed"]]
                  /\ ctor' = ctor
                  /\ tokenMutex' = 0
    /\ UNCHANGED <<now, ticks, uiVars, limAll, oauthFetcher, accessToken,
                   refreshTokenValue, tokenExpiry, cache, fr, fetcherScript,
                   resolved>>

\* ensureValidToken asks for a refresh when a refresh token is held
hasRefreshToken_Never == FALSE

hasRefreshToken == refreshTokenValue # ""

\* refreshToken(): the refresh-grant exchange, up to tokenMutex.Lock(). When
\* it fails ensureValidToken goes on to authenticate().
refreshToken(p) ==
    /\ tk[p].pc = "refresh"
    /\ \E reply \in TokenReplies :
          LET f == [tk[p] EXCEPT !.nRefresh = @ + 1]
          IN tk' = [tk EXCEPT ![p] =
                       IF reply.ok
                       THEN [f EXCEPT !.pc = "store", !.kind = "refresh",
                                      !.resp = reply.resp]
                       ELSE [f EXCEPT !.pc = "auth", !.refreshFailed = TRUE]]
    /\ UNCHANGED <<now, ticks, uiVars, limAll, oauthFetcher, accessToken,
                   refreshTokenValue, tokenExpiry, tokenMutex, ctor, cache, fr,
                   fetcherScript, resolved>>

\* the end of authenticate() / refreshToken(): tokenMutex.Lock(), the token
\* fields are stored, tokenMutex.Unlock(), and the return to NewOAuthClient
\* (which hands the client to NewClient) or to ensureValidToken (which
\* returns nil and runs its deferred Unlock). The Lock waits while tokenMutex
\* is held, by the caller itself too.
tokenStore(p) ==
    /\ tk[p].pc = "store"
    /\ tokenMutex = 0
    /\ accessToken' = tk[p].resp.AccessToken
    /\ refreshTokenValue' =
          IF tk[p].kind = "refresh" /\ tk[p].resp.RefreshToken = ""
          THEN refreshTokenValue ELSE tk[p].resp.RefreshToken
    /\ tokenExpiry' = now + tk[p].resp.ExpiresIn
    /\ IF tk[p].inNew
       THEN /\ tk' = [tk EXCEPT ![p] = IdleToken]
            /\ ctor' = [ctor EXCEPT !.state = "done", !.oauth = "client",
                                    !.client = TRUE]
            /\ oauthFetcher' = TRUE
       ELSE /\ tk' = [tk EXCEPT ![p].pc = "ret", ![p].err = NoErr]
            /\ ctor' = ctor
            /\ oauthFetcher' = oauthFetcher
    /\ tokenMutex' = 0
    /\ UNCHANGED <<now, ticks, uiVars, limAll, cache, fr, fetcherScript, resolved>>

\* the token against the clock, as the claims speak of it
tokenClass ==
    IF accessToken = "" THEN "absent"
    ELSE IF now < tokenExpiry - RefreshMargin THEN "valid"
    ELSE IF now = tokenExpiry - RefreshMargin THEN "margin"
    ELSE "near"

\* ensureValidToken(), called by OAuthClient.Search: the check of tokenValid
\* under the read lock
ensureValidToken(p) ==
    /\ ctor.client
    /\ oauthFetcher
    /\ tk[p].pc = "idle"
    /\ tokenMutex = 0
    /\ tk' = [tk EXCEPT ![p] =
                 [IdleToken EXCEPT !.pc = IF tokenValid THEN "ret" ELSE "lock",
                                   !.startClass = tokenClass,
                                   !.startToken = <<accessToken, refreshTokenValue,
                                                    tokenExpiry>>,
                                   !.startRefresh = (refreshTokenValue # "")]]
    /\ UNCHANGED <<now, ticks, uiVars, limAll, oauthFetcher, accessToken,
                   refreshTokenValue, tokenExpiry, tokenMutex, ctor, cache, fr,
                   fetcherScript, resolved>>

\* ensureValidToken: tokenMutex.Lock() and the second check; the lock is kept
\* over the exchange that follows and released by the deferred Unlock
ensureValidTokenLock(p) ==
    /\ tk[p].pc = "lock"
    /\ tokenMutex = 0
    /\ IF tokenStale
       THEN /\ tokenMutex' = p
            /\ tk' = [tk EXCEPT ![p].pc = IF hasRefreshToken THEN "refresh" ELSE "auth"]
       ELSE /\ tokenMutex' = 0
            /\ tk' = [tk EXCEPT ![p].pc = "ret", ![p].err = NoErr]
    /\ UNCHANGED <<now, ticks, uiVars, limAll, oauthFetcher, accessToken,
                   refreshTokenValue, tokenExpiry, ctor, cache, fr,
                   fetcherScript, resolved>>

\* ensureValidToken has returned to Search
ensureValidTokenReturn(p) ==
    /\ tk[p].pc = "ret"
    /\ tk' = [tk EXCEPT ![p] = IdleToken]
    /\ UNCHANGED <<now, ticks, uiVars, limAll, oauthFetcher, accessToken,
                   refreshTokenValue, tokenExpiry, tokenMutex, ctor, cache, fr,
                   fetcherScript, resolved>>

----------------------------------------------------------------------------
(* OAuthClient.Search with its token validation *)

\* a Search that sends its request whatever ensureValidToken returned
oauthSearchProceeds_Always(err) == TRUE

\* OAuthClient.Search goes on to its request when ensureValidToken
\* returned nil
oauthSearchProceeds(err) == err = NoErr

\* OAuthClient.Search: c.rateLimiter.wait() returns
oauthSearchWaited(p) ==
    /\ pub[p].pc = "wait"
    /\ pub[p].kind = "oauth"
    /\ waitReturn(p)
    /\ pub' = [pub EXCEPT ![p].pc = "token", ![p].waited = TRUE]

\* OAuthClient.Search calls ensureValidToken
oauthSearchEnsure(p) ==
    /\ pub[p].pc = "token"
    /\ ensureValidToken(p)

\* ensureValidToken has returned to OAuthClient.Search, which returns
\* "token validation failed" or goes on to build and send its request
oauthSearchAfterToken(p) ==
    /\ pub[p].pc = "token"
    /\ tk[p].pc = "ret"
    /\ tk' = [tk EXCEPT ![p] = IdleToken]
    /\ pub' = [pub EXCEPT ![p] =
                  IF oauthSearchProceeds(tk[p].err)
                  THEN [@ EXCEPT !.pc = "http", !.token = tk[p].err,
                                 !.agent = "username"]
                  ELSE [@ EXCEPT !.pc = "done", !.token = tk[p].err,
                                 !.err = "token validation failed"]]
    /\ UNCHANGED <<now, ticks, uiVars, limVars, oauthFetcher, accessToken,
                   refreshTokenValue, tokenExpiry, tokenMutex, ctor, cache, fr,
                   fetcherScript, resolved>>

----------------------------------------------------------------------------
(* Specifications *)

\* one caller at a time
ClientInit ==
    now = 0 /\ ticks = 0 /\ NewDialogOverlay /\ LimInit(PublicRPM) /\ NewClient /\ fetcherScript = "any"

ClientStep(p) ==
    \/ \E goal \in Goals : GoalLink(p, goal)
    \/ searchForGoal(p)
    \/ searchPrimary(p)
    \/ searchSecondary(p)
    \/ cacheWrite(p)
    \/ \E goals \in GoalLists : GoalLinks(p, goals)
    \/ GoalLinksScan(p)
    \/ GoalLinksNext(p)
    \/ GoalLinksCollect(p)
    \/ Return(p)
    \/ ClearCache(p)

ClientNext == tokenClock \/ ClientStep(1)

SpecClient == ClientInit /\ [][ClientNext]_vars

\* two concurrent callers of GoalLink (a foreground resolution and a
\* background prefetch), on a client built by NewClientWithFetcher
ConcInit ==
    /\ now = 0 /\ ticks = 0 /\ NewDialogOverlay /\ LimInit(PublicRPM) /\ NewClientWithFetcher
    /\ fetcherScript = "any"

ConcStep(p) ==
    \/ \E goal \in Goals : GoalLink(p, goal)
    \/ searchForGoal(p)
    \/ searchPrimary(p)
    \/ searchSecondary(p)
    \/ cacheWrite(p)
    \/ Return(p)
    \/ ClearCache(p)

ConcNext == \E p \in Callers : ConcStep(p)

SpecClientConc == ConcInit /\ [][ConcNext]_vars

\* NewClient with the four credentials set, then two concurrent callers of
\* OAuthClient.Search inside ensureValidToken
TokenInit ==
    /\ now = 0 /\ ticks = 0 /\ NewDialogOverlay /\ LimInit(OAuthRPM) /\ NotBuilt(Credentials)
    /\ fetcherScript = "any"

TokenNext ==
    \/ NewClientCall(1)
    \/ tokenClock
    \/ \E p \in Callers :
          \/ authenticate(p)
          \/ refreshToken(p)
          \/ tokenStore(p)
          \/ ensureValidToken(p)
          \/ ensureValidTokenLock(p)
          \/ ensureValidTokenReturn(p)

SpecToken == TokenInit /\ [][TokenNext]_vars

\* NewClient in an environment with any of the credentials set, then one
\* caller of GoalLink
ConstructInit ==
    /\ now = 0 /\ ticks = 0 /\ NewDialogOverlay /\ LimInit(PublicRPM)
    /\ \E creds \in SUBSET Credentials : NotBuilt(creds)
    /\ fetcherScript = "any"

ConstructNext ==
    \/ NewClientCall(1)
    \/ authenticate(1)
    \/ tokenStore(1)
    \/ tokenClock
    \/ ConcStep(1)

SpecConstruct == ConstructInit /\ [][ConstructNext]_vars

\* one GoalLinks call for up to MaxBatch goals of different keys, on a client
\* built by NewClientWithFetcher around a scripted fetcher
BatchInit ==
    /\ now = 0 /\ ticks = 0 /\ NewDialogOverlay /\ LimInit(PublicRPM) /\ NewClientWithFetcher
    /\ fetcherScript \in FetcherScripts

BatchNext ==
    \/ \E n \in 0..MaxBatch : GoalLinks(1, BatchInput(n))
    \/ GoalLinksScan(1)
    \/ GoalLinksNext(1)
    \/ searchForGoal(1)
    \/ searchPrimary(1)
    \/ searchSecondary(1)
    \/ cacheWrite(1)
    \/ GoalLinksCollect(1)

SpecBatch == BatchInit /\ [][BatchNext]_vars

\* the rate limiter alone
LimiterInit ==
    /\ now = 0
    /\ ticks = 0
    /\ NewDialogOverlay
    /\ \E rpm \in {PublicRPM, OAuthRPM} : LimInit(rpm)
    /\ NewClientWithFetcher
    /\ fetcherScript = "any"

LimiterNext ==
    \/ Tick
    \/ \E p \in LimCallers : waitEnter(p) /\ UNCHANGED pub
    \/ \E p \in LimCallers : waitReturn(p) /\ UNCHANGED pub
    \/ recordCaptchaError /\ UNCHANGED pub

SpecLimiter == LimiterInit /\ [][LimiterNext]_vars

\* two concurrent callers of Search on one fetcher and its limiter
FetcherNext ==
    \/ \E p \in FetchCallers :
          \/ fetcherSearch(p)
          \/ fetcherSearchWaited(p)
          \/ publicSearchAgent(p)
          \/ publicSearchResponse(p)
          \/ oauthSearchResponse(p)
          \/ fetcherSearchReturn(p)

SpecFetcher == LimiterInit /\ [][FetcherNext]_vars

\* two concurrent callers of OAuthClient.Search on a client built with the
\* four credentials. tokenStore is not among the steps: inside
\* ensureValidToken its tokenMutex.Lock() never returns.
OAuthSearchInit ==
    /\ now = 0 /\ ticks = 0 /\ NewDialogOverlay /\ LimInit(OAuthRPM) /\ NewClientOAuth
    /\ fetcherScript = "any"

OAuthSearchNext ==
    \/ tokenClock
    \/ \E p \in FetchCallers :
          \/ fetcherSearch(p)
          \/ oauthSearchWaited(p)
          \/ oauthSearchEnsure(p)
          \/ ensureValidTokenLock(p)
          \/ refreshToken(p)
          \/ authenticate(p)
          \/ oauthSearchAfterToken(p)
          \/ oauthSearchResponse(p)
          \/ fetcherSearchReturn(p)

SpecOAuthSearch == OAuthSearchInit /\ [][OAuthSearchNext]_vars

\* one DialogOverlay and the calls the program makes on it
DialogInit ==
    /\ now = 0 /\ ticks = 0 /\ NewDialogOverlay /\ LimInit(PublicRPM) /\ NewClientWithFetcher
    /\ fetcherScript = "any"

DialogNext ==
    \/ \E dialogID \in DialogIDs : OpenDialog(dialogID)
    \/ \E dialogID \in DialogIDs : CloseDialog(dialogID)
    \/ CloseFrontDialog
    \/ Update

SpecDialog == DialogInit /\ [][DialogNext]_vars

\* one caller of GoalLink on a client built by NewClientWithFetcher around
\* a fetcher that returns up to MaxPair posts for a query
OnceInit ==
    /\ now = 0 /\ ticks = 0 /\ NewDialogOverlay /\ LimInit(PublicRPM) /\ NewClientWithFetcher
    /\ fetcherScript = "pairs"

OnceNext == ConcStep(1)

SpecOnce == OnceInit /\ [][OnceNext]_vars

\* two concurrent callers of wait() and getNextUserAgent() on one limiter
AgentsNext ==
    \/ \E p \in FetchCallers : waitEnter(p) /\ UNCHANGED pub
    \/ \E p \in FetchCallers : waitReturn(p) /\ UNCHANGED pub
    \/ \E p \in FetchCallers : getNextUserAgent(p) /\ UNCHANGED pub

SpecAgents == LimiterInit /\ [][AgentsNext]_vars

----------------------------------------------------------------------------
(* Claims about the rate limiter, checked under SpecLimiter *)

\* C9: with no abuse signal recorded, every recorded request time is at least
\* minInterval (12 s at 5 requests/minute, 6 s at 10) after the previous one,
\* N calls take at least (N-1) * minInterval, and the first wait() on a fresh
\* limiter does not sleep.
C9_BaseSpacing ==
    /\ minInterval \in {12, 6}
    /\ captchaCount = 0 =>
        /\ nWaits >= 2 => lastRequest - prevRequest >= minInterval
        /\ nWaits >= 1 => lastRequest - firstRequest >= (nWaits - 1) * minInterval
    /\ \A p \in LimCallers :
          (nWaits = 0 /\ wpc[p] = "sleep") => (waitSlept = 0 /\ wakeAt[p] = waitStart)

\* three calls without a signal, the last of which had to sleep and was
\* recorded exactly minInterval after its predecessor
C9_Witness ==
    /\ captchaCount = 0
    /\ nWaits >= 3
    /\ mu = 0
    /\ waitSlept > 0
    /\ lastRequest - prevRequest = minInterval

\* C10: a wait() that starts less than 10 minutes after the most recent signal
\* enforces 2 * minInterval since the last request; one that starts 10 minutes
\* or more after it enforces the base minInterval, whatever the signal count.
C10_Expected ==
    IF sigAtStart > 0 /\ waitStart - capAtStart < 600
    THEN 2 * minInterval
    ELSE minInterval

C10_CooldownDoubling ==
    (nWaits > 0 \/ mu # 0) =>
        /\ waitInterval = C10_Expected
        /\ waitSlept = IF waitElapsed < C10_Expected
                       THEN C10_Expected - waitElapsed ELSE 0
        /\ (mu = 0 /\ nWaits >= 2) => lastRequest - prevRequest >= C10_Expected

\* after a doubled wait, a later wait that starts 10 minutes or more after the
\* second signal sleeps to the base interval only
C10_Witness ==
    /\ nDoubled >= 1
    /\ mu = 0
    /\ sigAtStart >= 2
    /\ waitStart - capAtStart >= 600
    /\ waitSlept > 0
    /\ lastRequest - prevRequest = minInterval


----------------------------------------------------------------------------
(* Claims about the Client, checked under SpecClient unless said otherwise *)

\* the Search calls of attempt a of the current GoalLink call
AttemptLog(f, a) == SelectSeq(f.slog, LAMBDA e : e.attempt = a)

AllFailed(f) == f.slog # <<>> /\ \A i \in 1..Len(f.slog) : f.slog[i].err # NoErr

\* C1: when an earlier GoalLink for the key resolved to Found and its cache
\* write succeeded, and the cache was not cleared since, GoalLink returns that
\* link with a nil error and makes no Search call (and no cache write).
C1_FoundServedFromCache ==
    \A p \in Callers :
        (fr[p].pc = "gl_done" /\ fr[p].prior \in URLs) =>
            /\ fr[p].link = fr[p].prior
            /\ fr[p].err = NoErr
            /\ fr[p].slog = <<>>
            /\ fr[p].nAttempts = 0

\* a GoalLink call returned the link an earlier call had resolved
C1_Witness ==
    /\ fr[1].pc = "gl_done"
    /\ fr[1].mode = "one"
    /\ fr[1].prior = "u2"
    /\ fr[1].link = "u2"
    /\ fr[1].slog = <<>>

\* C2: while NotFound is cached for a key, GoalLink returns no link and no
\* error without a Search call, and GoalLinks leaves the key out of its result
\* without calling GoalLink or Search for it.
C2_NegativeMemo ==
    \A p \in Callers :
        /\ (fr[p].pc = "gl_done" /\ fr[p].entry = NotFoundMarker) =>
              /\ fr[p].link = NilLink
              /\ fr[p].err = NoErr
              /\ fr[p].slog = <<>>
              /\ fr[p].wlog = <<>>
        /\ fr[p].mode = "many" =>
              \A k \in DOMAIN fr[p].scanned :
                  fr[p].scanned[k] = NotFoundMarker =>
                      /\ k \notin DOMAIN fr[p].results
                      /\ k \notin fr[p].searchedKeys
                      /\ \A n \in 1..Len(fr[p].work) : GoalLinkKey(fr[p].work[n]) # k

\* GoalLink answered from a NotFound marker
C2_Witness ==
    /\ fr[1].pc = "gl_done"
    /\ fr[1].mode = "one"
    /\ fr[1].entry = NotFoundMarker
    /\ fr[1].link = NilLink
    /\ fr[1].slog = <<>>

\* GoalLinks skipped a key cached as NotFound and resolved another key
C2_WitnessMany ==
    /\ fr[1].pc = "gls_done"
    /\ \E k \in DOMAIN fr[1].scanned : fr[1].scanned[k] = NotFoundMarker
    /\ fr[1].searchedKeys # {}

\* C3 (as claimed): when every Search call of a GoalLink call failed with an
\* error, the call writes no cache entry.
C3_ErrorsNotCached ==
    \A p \in Callers :
        (fr[p].pc = "gl_done" /\ AllFailed(fr[p])) =>
            /\ fr[p].wlog = <<>>
            /\ cache[GoalLinkKey(fr[p].goal)] = NilLink

\* C4 (as claimed): on the public channel, when every Search call returns the
\* blocked error, GoalLink makes exactly 3 attempts, then returns no link and
\* no error.
C4_ThreeAttempts ==
    \A p \in Callers :
        ( /\ fr[p].pc = "gl_done"
          /\ fr[p].fetcher = "public"
          /\ fr[p].slog # <<>>
          /\ \A i \in 1..Len(fr[p].slog) : isRetryable(fr[p].slog[i].err) ) =>
            /\ fr[p].nAttempts = 3
            /\ fr[p].link = NilLink
            /\ fr[p].err = NoErr

\* C5: in every attempt the first Search call is the primary query, the
\* secondary query follows a primary query without a match, and an attempt
\* whose primary results hold a match makes that one Search call only.
C5_ShortCircuit ==
    \A p \in Callers : \A a \in 0..(maxRetries - 1) :
        LET f == fr[p]
            log == AttemptLog(f, a)
        IN /\ Len(log) <= 2
           /\ Len(log) >= 1 => log[1].query = query1(f.goal)
           /\ Len(log) = 2 =>
                 /\ log[2].query = query2(f.goal)
                 /\ ~(log[1].err = NoErr /\ log[1].matched)
           /\ (Len(log) >= 1 /\ log[1].err = NoErr /\ log[1].matched) =>
                 /\ Len(log) = 1
                 /\ f.pc \in {"gl_set", "gl_done"}

\* an attempt ended after a matching primary query, with one Search call
C5_Witness ==
    /\ fr[1].pc = "gl_set"
    /\ fr[1].link \in URLs
    /\ Len(fr[1].slog) = 1
    /\ fr[1].slog[1].query = query1(fr[1].goal)
    /\ fr[1].slog[1].matched

\* C6: one GoalLinks call hands at most one goal per key to GoalLink, and that
\* goal is the first goal of the input with the key.
C6_Dedup ==
    \A p \in Callers :
        LET f == fr[p] IN
        f.mode = "many" =>
            /\ \A m, n \in 1..Len(f.work) :
                  GoalLinkKey(f.work[m]) = GoalLinkKey(f.work[n]) => m = n
            /\ \A n \in 1..Len(f.work) :
                  \E i \in 1..Len(f.goals) :
                      /\ f.goals[i] = f.work[n]
                      /\ \A h \in 1..(i - 1) :
                            GoalLinkKey(f.goals[h]) # GoalLinkKey(f.work[n])
            /\ \A m, n \in 1..Len(f.uncachedGoals) :
                  GoalLinkKey(f.uncachedGoals[m]) = GoalLinkKey(f.uncachedGoals[n]) => m = n

\* GoalLinks got two different goals with one key and resolved the first
C6_Witness ==
    /\ fr[1].pc = "gls_done"
    /\ Len(fr[1].goals) = 3
    /\ fr[1].goals[1] # fr[1].goals[2]
    /\ GoalLinkKey(fr[1].goals[1]) = GoalLinkKey(fr[1].goals[2])
    /\ Len(fr[1].work) = 2
    /\ fr[1].work[1] = fr[1].goals[1]

\* C7: every key of the map GoalLinks builds is a key of the input and maps
\* to a Found link, which the scan read from the cache or GoalLink returned
\* with a nil error in this call.
C7_OnlyFound ==
    \A p \in Callers :
        LET f == fr[p] IN
        \A k \in DOMAIN f.results :
            /\ f.results[k] \in URLs
            /\ \E i \in 1..Len(f.goals) : GoalLinkKey(f.goals[i]) = k
            /\ \/ k \in DOMAIN f.scanned /\ f.scanned[k] = f.results[k]
               \/ /\ k \in DOMAIN f.got
                  /\ f.got[k].err = NoErr
                  /\ f.got[k].link = f.results[k]

\* GoalLinks returned one link from the cache and left out a key whose
\* resolution found nothing
C7_Witness ==
    /\ fr[1].pc = "gls_done"
    /\ \E k \in DOMAIN fr[1].results :
          /\ k \in DOMAIN fr[1].scanned
          /\ fr[1].scanned[k] \in URLs
    /\ \E k \in DOMAIN fr[1].got :
          /\ fr[1].got[k].link = NilLink
          /\ k \notin DOMAIN fr[1].results

\* GoalLinks returned a link that GoalLink resolved in this call
C7_WitnessResolved ==
    /\ fr[1].pc = "gls_done"
    /\ \E k \in DOMAIN fr[1].got :
          /\ fr[1].got[k].link \in URLs
          /\ k \in DOMAIN fr[1].results

----------------------------------------------------------------------------
(* Claims about the token of the OAuthClient, checked under SpecToken *)

\* the caller is inside ensureValidToken
InEnsure(p) == tk[p].pc # "idle" /\ ~tk[p].inNew

\* the caller holds tokenMutex for ensureValidToken and waits in
\* tokenMutex.Lock() of refreshToken / authenticate with a token response in
\* hand: the response is never stored and the call never returns
SelfBlocked(p) == InEnsure(p) /\ tk[p].pc = "store" /\ tokenMutex = p

\* C11: an ensureValidToken call that finds the access token present and less
\* than 5 minutes from its expiry, with a refresh token held, makes exactly
\* one refresh exchange (none before the write lock is taken, one from the
\* exchange on); a call that finds the access token present and more than 5
\* minutes from its expiry makes no exchange of either kind and returns nil.
C11_OneRefresh ==
    \A p \in Callers :
        InEnsure(p) =>
            /\ tk[p].startClass = "valid" =>
                  /\ tk[p].pc = "ret"
                  /\ tk[p].err = NoErr
                  /\ tk[p].nRefresh = 0
                  /\ tk[p].nAuth = 0
            /\ (tk[p].startClass = "near" /\ tk[p].startRefresh) =>
                  /\ tk[p].pc \in {"lock", "refresh"} =>
                        (tk[p].nRefresh = 0 /\ tk[p].nAuth = 0)
                  /\ tk[p].pc \in {"auth", "store", "ret"} => tk[p].nRefresh = 1

\* a call that found the token near its expiry with a refresh token held has
\* made its one refresh exchange and no other exchange
C11_Witness ==
    \E p \in Callers :
        /\ InEnsure(p)
        /\ tk[p].startClass = "near"
        /\ tk[p].startRefresh
        /\ tk[p].pc = "store"
        /\ tk[p].kind = "refresh"
        /\ tk[p].nRefresh = 1
        /\ tk[p].nAuth = 0

\* a call that found the token more than 5 minutes from expiry returned nil
C11_WitnessValid ==
    \E p \in Callers :
        /\ InEnsure(p)
        /\ tk[p].startClass = "valid"
        /\ tk[p].pc = "ret"
        /\ now > 0

\* C12 (as claimed): of the callers that are inside ensureValidToken together
\* and found the token absent or within 5 minutes of expiry, once one of them
\* has obtained a token from its exchange the others make no exchange, and
\* that caller stores the token and releases the write lock, so that the
\* others re-check under the lock, see the renewed token and return.
C12_SingleExchange ==
    /\ \A p, q \in Callers :
          (p # q /\ InEnsure(p) /\ InEnsure(q) /\ tk[p].kind # "none") =>
              tk[q].nRefresh + tk[q].nAuth = 0
    /\ \A p \in Callers : ~SelfBlocked(p)

\* C13 (as claimed): a call whose refresh exchange failed has made or is about
\* to make an authenticate exchange; it returns an error only when that
\* exchange failed too, and when that exchange succeeded the new token is
\* stored and the call returns nil.
C13_FallbackToAuthenticate ==
    \A p \in Callers :
        (InEnsure(p) /\ tk[p].refreshFailed) =>
            /\ tk[p].pc \in {"auth", "store", "ret"}
            /\ tk[p].pc # "auth" => tk[p].nAuth = 1
            /\ (tk[p].pc = "ret" /\ tk[p].err # NoErr) => ~tk[p].authOK
            /\ tk[p].authOK =>
                  /\ ~SelfBlocked(p)
                  /\ tk[p].pc = "ret" =>
                        (tk[p].err = NoErr /\ accessToken = tk[p].resp.AccessToken)

----------------------------------------------------------------------------
(* Claims about construction, checked under SpecConstruct *)

\* C14 (as claimed): when the four credentials are set and the credential
\* exchange of NewOAuthClient fails, NewClient still returns a client and no
\* error, and that client resolves goals through the public fetcher.
C14_FallbackOnAuthFailure ==
    ctor.oauth = "error" =>
        /\ ctor.client
        /\ ctor.err = NoErr
        /\ ~oauthFetcher

\* C15: when at least one of the four credentials is empty (none set, or some
\* set), NewOAuthClient returns no client and no error without a token
\* exchange, NewClient returns a client without an OAuth fetcher, and every
\* search of that client goes to the public fetcher.
C15_NotConfigured ==
    (ctor.state = "done" /\ ctor.creds # Credentials /\ ctor.err # "create cache") =>
        /\ ctor.oauth = "nil"
        /\ ctor.exchanges = 0
        /\ ctor.client
        /\ ctor.err = NoErr
        /\ ~oauthFetcher
        /\ accessToken = ""
        /\ \A p \in Callers :
              /\ tk[p] = IdleToken
              /\ fr[p].fetcher \in {"none", "public"}

\* with three of the four credentials set, the client resolved a goal through
\* the public fetcher
C15_Witness ==
    /\ Cardinality(ctor.creds) = 3
    /\ ctor.state = "done"
    /\ ctor.exchanges = 0
    /\ fr[1].pc = "gl_set"
    /\ fr[1].fetcher = "public"
    /\ fr[1].link \in URLs

----------------------------------------------------------------------------
(* Further claims about the Client, checked under SpecClient *)

\* C16 (as claimed): a GoalLink call that searched through the OAuth fetcher
\* and got an error from a Search call returns that error, and the failed
\* Search call is its last: one attempt, no retry sleep.
C16_OAuthErrorReturned ==
    \A p \in Callers :
        LET f == fr[p] IN
        ( /\ f.pc = "gl_done"
          /\ f.fetcher = "oauth"
          /\ \E i \in 1..Len(f.slog) : f.slog[i].err # NoErr ) =>
            /\ f.slog[Len(f.slog)].err # NoErr
            /\ f.err = f.slog[Len(f.slog)].err
            /\ \A i \in 1..(Len(f.slog) - 1) : f.slog[i].err = NoErr
            /\ f.nAttempts = 1
            /\ f.sleeps = <<>>

----------------------------------------------------------------------------
(* Claims about the batches of GoalLinks, checked under SpecBatch *)

\* C17: GoalLinks sleeps 2 seconds once before the 6th, 11th, 16th, ...
\* uncached goal and nowhere else, so that a call with n uncached goals has
\* slept ceil(n/5) - 1 times when it ends, and not at all when n <= 5.
C17_BatchDelays ==
    \A p \in Callers :
        LET f == fr[p]
            n == Len(f.uncachedGoals)
            started == Len(f.work)
        IN f.mode = "many" =>
            /\ Len(f.sleptBefore) = IF started = 0 THEN 0 ELSE (started - 1) \div 5
            /\ \A k \in 1..Len(f.sleptBefore) : f.sleptBefore[k] = 5 * k
            /\ f.batchSleeps = 2 * Len(f.sleptBefore)
            /\ f.pc = "gls_done" =>
                  /\ started = n
                  /\ f.batchSleeps = IF n <= 5 THEN 0 ELSE 2 * (((n + 4) \div 5) - 1)
                  /\ now = f.batchSleeps

\* a call with 11 uncached goals ended after two batch delays
C17_Witness ==
    /\ fr[1].pc = "gls_done"
    /\ Len(fr[1].uncachedGoals) = 11
    /\ fr[1].sleptBefore = <<5, 10>>
    /\ fr[1].batchSleeps = 4

----------------------------------------------------------------------------
(* Further claims about GoalLinks, checked under SpecClient *)

\* C18: a GoalLinks call hands every uncached goal to GoalLink, in order,
\* also after a goal whose Search calls failed or whose GoalLink returned an
\* error, and its result holds every link that GoalLink returned.
C18_FailureDoesNotAbort ==
    \A p \in Callers :
        LET f == fr[p] IN
        f.mode = "many" =>
            /\ f.pc \in {"gls_loop", "gls_done"} => Len(f.work) = f.j
            /\ \A n \in 1..Len(f.work) : f.work[n] = f.uncachedGoals[n]
            /\ f.pc = "gls_done" =>
                  /\ f.work = f.uncachedGoals
                  /\ \A n \in 1..Len(f.work) : GoalLinkKey(f.work[n]) \in DOMAIN f.got
                  /\ \A k \in DOMAIN f.got :
                        (f.got[k].err = NoErr /\ f.got[k].link \in URLs) =>
                            (k \in DOMAIN f.results /\ f.results[k] = f.got[k].link)

\* the Search calls for the first uncached goal failed, and the call went on
\* to resolve the second one and returned its link
C18_Witness ==
    /\ fr[1].pc = "gls_done"
    /\ Len(fr[1].work) = 2
    /\ fr[1].got[GoalLinkKey(fr[1].work[1])].failed
    /\ fr[1].got[GoalLinkKey(fr[1].work[2])].link \in URLs
    /\ GoalLinkKey(fr[1].work[2]) \in DOMAIN fr[1].results

\* C19: in a GoalLinks call, a key that the scan found in the cache gets no
\* GoalLink call and no Search call and keeps its cache entry; it is in the
\* result with the cached link when the entry is Found and is left out when
\* the entry is NotFound. Search calls are made for keys without an entry only.
C19_CachedKeysUntouched ==
    \A p \in Callers :
        LET f == fr[p] IN
        f.mode = "many" =>
            /\ \A k \in f.searchedKeys : k \in DOMAIN f.scanned /\ f.scanned[k] = NilLink
            /\ \A k \in DOMAIN f.scanned :
                  f.scanned[k] # NilLink =>
                      /\ k \notin f.searchedKeys
                      /\ \A n \in 1..Len(f.work) : GoalLinkKey(f.work[n]) # k
                      /\ cache[k] = f.scanned[k]
                      /\ f.scanned[k] \in URLs =>
                            (k \in DOMAIN f.results /\ f.results[k] = f.scanned[k])
                      /\ f.scanned[k] = NotFoundMarker => k \notin DOMAIN f.results

\* a call for one key cached as Found and one cached as NotFound returned the
\* one link without a search
C19_Witness ==
    /\ fr[1].pc = "gls_done"
    /\ \E k \in DOMAIN fr[1].scanned : fr[1].scanned[k] = NotFoundMarker
    /\ \E k \in DOMAIN fr[1].scanned :
          fr[1].scanned[k] \in URLs /\ fr[1].results[k] = fr[1].scanned[k]
    /\ fr[1].searchedKeys = {}
    /\ fr[1].work = <<>>

\* C20: a GoalLink call whose cache write failed returns what it resolved (the
\* link, or no link) with a nil error; the key is left without an entry, so
\* that a later GoalLink for it searches again, and nothing else changed.
C20_WriteFailureIgnored ==
    \A p \in Callers :
        LET f == fr[p] IN
        (f.pc = "gl_done" /\ f.wlog # <<>> /\ ~f.wlog[1].ok) =>
            /\ f.err = NoErr
            /\ Len(f.wlog) = 1
            /\ f.wlog[1].value = IF f.link = NilLink THEN NotFoundMarker ELSE f.link
            /\ f.link \in URLs \cup {NilLink}
            /\ cache[GoalLinkKey(f.goal)] = NilLink
            /\ resolved[GoalLinkKey(f.goal)] = f.prior

\* a GoalLink call resolved a link, failed to cache it and returned it
C20_Witness ==
    /\ fr[1].pc = "gl_done"
    /\ fr[1].mode = "one"
    /\ fr[1].wlog # <<>>
    /\ ~fr[1].wlog[1].ok
    /\ fr[1].link \in URLs
    /\ fr[1].err = NoErr

----------------------------------------------------------------------------
(* Claims about the choice of the fetcher, checked under SpecClient *)

\* C21: a GoalLink call that missed the cache searches through the OAuth
\* fetcher exactly when the client has one, its access token is non-empty
\* and the clock at the choice was before the token's expiry; otherwise it
\* searches through the public fetcher. The choice leaves the token fields
\* and the token lock as they were.
C21_FetcherChoice ==
    \A p \in Callers :
        LET f == fr[p] IN
        /\ f.fetcher # "none" =>
              /\ f.entry = NilLink
              /\ f.fetcher = "oauth" <=>
                    (oauthFetcher /\ f.pick[1] # "" /\ f.pick[5] < f.pick[3])
              /\ f.fetcher = "public" <=>
                    ~(oauthFetcher /\ f.pick[1] # "" /\ f.pick[5] < f.pick[3])
        /\ (f.pc = "q1" /\ f.slog = <<>>) =>
              <<accessToken, refreshTokenValue, tokenExpiry, tokenMutex>> =
                  <<f.pick[1], f.pick[2], f.pick[3], f.pick[4]>>
        /\ f.pc \in {"sfg", "q1", "q2", "gl_set"} => f.entry = NilLink

\* a client with an OAuth fetcher whose token has reached its expiry chose
\* the public fetcher
C21_Witness ==
    /\ oauthFetcher
    /\ accessToken # ""
    /\ fr[1].pc = "q1"
    /\ fr[1].fetcher = "public"
    /\ fr[1].pick[5] = tokenExpiry

\* a client with an OAuth fetcher and a token before its expiry chose it
C21_WitnessOAuth ==
    /\ fr[1].pc = "q1"
    /\ fr[1].fetcher = "oauth"
    /\ now > 0
    /\ now < tokenExpiry

----------------------------------------------------------------------------
(* Claims about the user agents, checked under SpecAgents *)

\* C22: the k-th call of getNextUserAgent on a limiter returns
\* userAgents[(k-1) mod 5] (counting the list from 0): the five user agents
\* come in strict rotation, no two calls less than five apart return the same
\* one, and userAgentIndex stays within 0..4, whichever of the concurrent
\* callers makes the calls.
C22_RoundRobin ==
    /\ userAgentIndex \in 0..(Len(userAgents) - 1)
    /\ userAgentIndex = Len(agentLog) % 5
    /\ \A k \in 1..Len(agentLog) : agentLog[k] = userAgents[((k - 1) % 5) + 1]
    /\ \A j, k \in 1..Len(agentLog) :
          (j < k /\ k - j < 5) => agentLog[j] # agentLog[k]

\* the rotation has wrapped around: the sixth call returned the first user
\* agent again, among wait() calls of both callers
C22_Witness ==
    /\ Len(agentLog) >= 7
    /\ agentLog[5] = userAgents[5]
    /\ agentLog[6] = userAgents[1]
    /\ agentLog[7] = userAgents[2]
    /\ prevCaller # 0
    /\ lastCaller # prevCaller

----------------------------------------------------------------------------
(* Claims about concurrent Search calls, checked under SpecFetcher *)

\* C30: concurrent callers of wait() on one limiter are serialized by
\* r.mu, which the sleeping caller holds: at most one caller is inside
\* wait() at a time and it is the holder of the lock; the request times
\* recorded by two consecutive calls, whoever made them, are at least the
\* interval of the later call apart; lastRequest never moves backwards and
\* is never ahead of the clock.
C30_Serialized ==
    /\ \A p, q \in FetchCallers :
          (wpc[p] = "sleep" /\ wpc[q] = "sleep") => p = q
    /\ \A p \in FetchCallers : wpc[p] = "sleep" <=> mu = p
    /\ (nWaits >= 2 /\ mu = 0) => lastRequest - prevRequest >= waitInterval
    /\ (nWaits >= 1 /\ mu # 0) => wakeAt[mu] - lastRequest >= waitInterval
    /\ nWaits >= 1 => (lastRequest >= prevRequest /\ lastRequest <= now)

\* two different callers made consecutive wait() calls, the later one slept
\* and its request time is exactly one interval after the earlier one's
C30_Witness ==
    /\ nWaits >= 2
    /\ mu = 0
    /\ prevCaller # 0
    /\ lastCaller # prevCaller
    /\ waitSlept > 0
    /\ lastRequest - prevRequest = waitInterval
    /\ \E p \in FetchCallers : pub[p].pc = "http" /\ pub[3 - p].pc = "agent"

\* a response the fetcher has to reject as blocked: a status other than 200,
\* or a body that names a challenge, or one that fails to decode and holds
\* HTML markers
Rejected(resp) ==
    /\ resp.transport
    /\ \/ resp.status # 200
       \/ resp.phrase
       \/ (~resp.json /\ resp.html)

\* the errors of Search that say the request was blocked
BlockedErrs ==
    {"blocking requests (CAPTCHA/bot detection)",
     "HTML instead of JSON (likely CAPTCHA or rate limit)"}

\* C23: a Search of the public fetcher whose response has a status other
\* than 200 or a challenge body has called recordCaptchaError and returns
\* an error that says the request was blocked; a Search of the OAuth
\* fetcher never calls recordCaptchaError, so the counter of its limiter
\* stays 0.
C23_SignalOnRejection ==
    /\ \A p \in FetchCallers :
          (pub[p].pc = "done" /\ pub[p].kind = "public" /\ Rejected(pub[p].resp)) =>
              (pub[p].signalled /\ pub[p].err \in BlockedErrs)
    /\ \A p \in FetchCallers : pub[p].kind = "oauth" => ~pub[p].signalled
    /\ limiterOwner = "oauth" => captchaCount = 0

----------------------------------------------------------------------------
(* Claims about the resolution of one goal, checked under SpecClient *)

\* the results a Search call handed to searchForGoalOnce
Handed(e) == IF e.err = NoErr THEN e.results ELSE <<>>

\* the position of the first result of rs with the URL u
FirstWith(rs, u) ==
    CHOOSE i \in 1..Len(rs) :
        rs[i].URL = u /\ \A j \in 1..(i - 1) : rs[j].URL # u

\* C24: when searchForGoalOnce ran both queries (the primary one gave no
\* match), the results the matcher saw are the primary results followed by
\* the secondary ones with every repeat of a URL left out: each URL of the
\* two lists appears once, as its first occurrence, in the order of the
\* first occurrences. GoalLink returns the match of that list, and stores
\* NotFound when it holds none.
C24_MergedCandidates ==
    \A p \in Callers :
        LET f == fr[p]
            n == Len(f.slog)
        IN (/\ f.pc \in {"gl_set", "gl_done"}
            /\ n >= 2
            /\ f.slog[n].query = query2(f.goal)) =>
              LET all == Handed(f.slog[n - 1]) \o Handed(f.slog[n])
                  c == f.merged
              IN /\ ~f.slog[n - 1].matched \/ f.slog[n - 1].err # NoErr
                 /\ {c[k].URL : k \in 1..Len(c)} = {all[i].URL : i \in 1..Len(all)}
                 /\ \A k, l \in 1..Len(c) : k # l => c[k].URL # c[l].URL
                 /\ \A k \in 1..Len(c) : c[k] = all[FirstWith(all, c[k].URL)]
                 /\ \A k, l \in 1..Len(c) :
                       k < l => FirstWith(all, c[k].URL) < FirstWith(all, c[l].URL)
                 /\ f.err = NoErr
                 /\ f.link = matchLink(c)
                 /\ (findBestMatch(c) = 0 /\ f.wlog # <<>>) =>
                       f.wlog[1].value = NotFoundMarker

\* the secondary query returned a hit whose URL the primary query had
\* already returned under another title: it was left out, the matcher found
\* nothing and NotFound was stored
C24_Witness ==
    LET f == fr[1] IN
    /\ f.pc = "gl_done"
    /\ Len(f.slog) = 2
    /\ f.slog[1].results = <<[URL |-> "u1", Title |-> "other"]>>
    /\ f.slog[2].results = <<[URL |-> "u1", Title |-> "goal"]>>
    /\ f.merged = <<[URL |-> "u1", Title |-> "other"]>>
    /\ f.link = NilLink
    /\ f.wlog = <<[value |-> NotFoundMarker, ok |-> TRUE]>>

\* both queries returned a hit with a URL of its own and the second matched
C24_WitnessBoth ==
    LET f == fr[1] IN
    /\ f.pc = "gl_done"
    /\ Len(f.merged) = 2
    /\ f.merged[1].URL = "u2"
    /\ f.link = "u1"

\* C26 (as claimed): on the public channel, when the Search calls of the
\* first attempt fail with a network error, which is none of the errors
\* searchForGoal retries on, GoalLink returns that error after this one
\* attempt, without a sleep.
C26_NonRetryableReturned ==
    \A p \in Callers :
        ( /\ fr[p].pc = "gl_done"
          /\ fr[p].fetcher = "public"
          /\ fr[p].slog # <<>>
          /\ \A i \in 1..Len(fr[p].slog) :
                fr[p].slog[i].err = "fetch from reddit" ) =>
            /\ ~isRetryable("fetch from reddit")
            /\ fr[p].err = "fetch from reddit"
            /\ fr[p].nAttempts = 1
            /\ fr[p].sleeps = <<>>

\* C27 (as claimed): on the public channel, a GoalLink call whose Search
\* calls all return the blocked error has slept 30 seconds before its first
\* retry and 60 seconds before its second, and at no other time.
C27_LinearBackoff ==
    \A p \in Callers :
        ( /\ fr[p].pc = "gl_done"
          /\ fr[p].fetcher = "public"
          /\ fr[p].slog # <<>>
          /\ \A i \in 1..Len(fr[p].slog) :
                fr[p].slog[i].err = "blocking requests (CAPTCHA/bot detection)" ) =>
            fr[p].sleeps = <<1 * baseDelay, 2 * baseDelay>>

\* C28 (as claimed): one GoalLink call writes the cache at most once, a
\* link or the NotFound marker; it writes nothing when the key was in the
\* cache, and nothing when it returns an error or when all its Search calls
\* failed.
C28_AtMostOneWrite ==
    \A p \in Callers :
        LET f == fr[p] IN
        /\ Len(f.wlog) <= 1
        /\ \A i \in 1..Len(f.wlog) : f.wlog[i].value \in URLs \cup {NotFoundMarker}
        /\ f.entry # NilLink => f.wlog = <<>>
        /\ f.err # NoErr => f.wlog = <<>>
        /\ AllFailed(f) => f.wlog = <<>>

----------------------------------------------------------------------------
(* Claims about the order of GoalLinks, checked under SpecClient *)

\* the position in goals of the first goal with the key of g
FirstOf(goals, g) ==
    CHOOSE i \in 1..Len(goals) :
        /\ GoalLinkKey(goals[i]) = GoalLinkKey(g)
        /\ \A j \in 1..(i - 1) : GoalLinkKey(goals[j]) # GoalLinkKey(g)

\* the caller is inside the GoalLink call of GoalLinks
InGoalLink(f) == f.pc \in {"sfg", "q1", "q2", "gl_set", "gl_done", "hung"}

\* C29: GoalLinks hands the uncached goals to GoalLink one at a time in the
\* order of their first occurrence in the input: uncachedGoals holds each
\* key once, as its first goal in the input and in input order; the goals
\* handed to GoalLink so far are a prefix of uncachedGoals; and when a goal
\* is handed over, the GoalLink call of every earlier one has returned.
C29_InputOrder ==
    \A p \in Callers :
        LET f == fr[p]
            u == f.uncachedGoals
        IN f.mode = "many" =>
            /\ \A k \in 1..Len(u) :
                  /\ \E i \in 1..Len(f.goals) : GoalLinkKey(f.goals[i]) = GoalLinkKey(u[k])
                  /\ u[k] = f.goals[FirstOf(f.goals, u[k])]
            /\ \A k, l \in 1..Len(u) :
                  k < l => FirstOf(f.goals, u[k]) < FirstOf(f.goals, u[l])
            /\ Len(f.work) <= Len(u)
            /\ \A n \in 1..Len(f.work) : f.work[n] = u[n]
            /\ Len(f.work) = IF InGoalLink(f) THEN f.j + 1 ELSE f.j
            /\ InGoalLink(f) => f.goal = f.work[f.j + 1]
            /\ DOMAIN f.got = {GoalLinkKey(f.work[n]) : n \in 1..f.j}

\* GoalLinks(<<a, b, a>>) is resolving b, the second and last uncached goal,
\* after the GoalLink call for a has returned
C29_Witness ==
    LET f == fr[1] IN
    /\ f.mode = "many"
    /\ Len(f.goals) = 3
    /\ GoalLinkKey(f.goals[3]) = GoalLinkKey(f.goals[1])
    /\ GoalLinkKey(f.goals[2]) # GoalLinkKey(f.goals[1])
    /\ f.uncachedGoals = <<f.goals[1], f.goals[2]>>
    /\ f.pc = "q2"
    /\ f.goal = f.goals[2]
    /\ GoalLinkKey(f.goals[1]) \in DOMAIN f.got

----------------------------------------------------------------------------
(* Further claims about the token, checked under SpecToken *)

\* C33 (as claimed): no call of ensureValidToken waits for a lock it holds
\* itself: a caller whose refresh or authenticate exchange succeeded while
\* it holds tokenMutex for ensureValidToken goes on to store the token, and
\* a call that returns after a successful exchange returns nil with the
\* access token of the response stored.
C33_EnsureReturns ==
    \A p \in Callers :
        InEnsure(p) =>
            /\ (tk[p].pc = "store" /\ tk[p].kind \in {"refresh", "auth"}) =>
                  tokenMutex # p
            /\ (tk[p].pc = "ret" /\ tk[p].kind # "none") =>
                  (tk[p].err = NoErr /\ accessToken = tk[p].resp.AccessToken)

\* C37 (as claimed): inside ensureValidToken, a failed refresh or
\* authenticate exchange leaves the access token, the refresh token and the
\* expiry as the call found them; a successful one is followed by the store
\* of its response: the caller is never left holding tokenMutex with the
\* response in hand and the old fields in place, and once the call returns
\* the access token is the one of the response and the refresh token is the
\* one of the response, or for a refresh without one the one held before.
C37_TokenFields ==
    \A p \in Callers :
        InEnsure(p) =>
            /\ (tk[p].pc = "ret" /\ tk[p].err # NoErr) =>
                  <<accessToken, refreshTokenValue, tokenExpiry>> = tk[p].startToken
            /\ (tk[p].pc = "auth" /\ tk[p].refreshFailed) =>
                  <<accessToken, refreshTokenValue, tokenExpiry>> = tk[p].startToken
            /\ (tk[p].kind # "none" /\ tokenMutex = p) =>
                  accessToken = tk[p].resp.AccessToken
            /\ (tk[p].kind # "none" /\ tk[p].pc = "ret") =>
                  /\ accessToken = tk[p].resp.AccessToken
                  /\ refreshTokenValue =
                        IF tk[p].kind = "refresh" /\ tk[p].resp.RefreshToken = ""
                        THEN tk[p].startToken[2] ELSE tk[p].resp.RefreshToken

----------------------------------------------------------------------------
(* Claims about OAuthClient.Search, checked under SpecOAuthSearch *)

\* C31: OAuthClient.Search sends its search request only after
\* rateLimiter.wait() has returned and ensureValidToken has returned nil,
\* in this order: the token is not looked at before wait() returned; and a
\* Search whose ensureValidToken returned an error returns "token validation
\* failed" without having sent a request.
C31_WaitThenTokenThenRequest ==
    \A p \in FetchCallers :
        pub[p].kind = "oauth" =>
            /\ (pub[p].pc = "http" \/ pub[p].sent) =>
                  (pub[p].waited /\ pub[p].token = NoErr)
            /\ pub[p].token \notin {"none", NoErr} =>
                  /\ ~pub[p].sent
                  /\ pub[p].pc = "done"
                  /\ pub[p].err = "token validation failed"
            /\ pub[p].err = "token validation failed" => ~pub[p].sent
            /\ ~pub[p].waited => (tk[p].pc = "idle" /\ pub[p].token = "none")
            /\ tk[p].pc # "idle" => pub[p].pc = "token"

\* a Search whose token validation failed after both exchanges failed
\* returned the error and sent nothing
C31_Witness ==
    \E p \in FetchCallers :
        /\ pub[p].pc = "done"
        /\ pub[p].kind = "oauth"
        /\ pub[p].waited
        /\ pub[p].token = "auth failed"
        /\ pub[p].err = "token validation failed"
        /\ ~pub[p].sent

\* a Search with a valid token sent its request after a wait() that slept
C31_WitnessSent ==
    \E p \in FetchCallers :
        /\ pub[p].pc = "done"
        /\ pub[p].kind = "oauth"
        /\ pub[p].token = NoErr
        /\ pub[p].sent
        /\ nWaits >= 2

----------------------------------------------------------------------------
(* Further claims about one resolution, checked under SpecClient *)

\* the three outcomes of a GoalLink call on a cache miss
Exhausted(f) == f.err = NoErr /\ f.nAttempts = maxRetries /\ AllFailed(f)

Resolved(f) == f.err = NoErr /\ Len(f.wlog) = 1 /\ ~Exhausted(f)

Errored(f) == f.err # NoErr /\ f.wlog = <<>>

\* C32 (as claimed): a GoalLink call on a cache miss is never stuck inside a
\* Search call; it makes at most 2 Search calls through the OAuth fetcher
\* and at most 6 through the public fetcher; and when it returns it is in
\* exactly one of the outcomes Resolved (a link or NotFound returned, one
\* cache write), ExhaustedRetries and Errored.
C32_Terminates ==
    \A p \in Callers :
        LET f == fr[p] IN
        /\ f.pc # "hung"
        /\ f.fetcher = "oauth" => Len(f.slog) <= 2
        /\ f.fetcher = "public" => Len(f.slog) <= 2 * maxRetries
        /\ (f.pc = "gl_done" /\ f.entry = NilLink) =>
              /\ Resolved(f) \/ Exhausted(f) \/ Errored(f)
              /\ ~(Resolved(f) /\ Errored(f))
              /\ ~(Exhausted(f) /\ Errored(f))

\* the positions of results that hold the first result with their URL
Firsts(results) ==
    {i \in 1..Len(results) : \A j \in 1..(i - 1) : results[j].URL # results[i].URL}

\* the positions of Firsts(results) whose title names the goal
FirstMatches(results) == {i \in Firsts(results) : results[i].Title = "goal"}

\* C34 (as claimed): when the primary Search of an attempt returned an
\* error, searchForGoalOnce goes on to the secondary query with no
\* candidates in hand; the candidates the matcher sees are then secondary
\* results alone, and a secondary hit that matches makes GoalLink return its
\* link with no error and store it.
C34_SecondaryAfterFailedPrimary ==
    \A p \in Callers :
        LET f == fr[p]
            n == Len(f.slog)
        IN \A i \in 1..n :
            (f.slog[i].query = query1(f.goal) /\ f.slog[i].err # NoErr) =>
                /\ i = n => (f.pc = "q2" /\ f.allResults = <<>>)
                /\ i < n =>
                      /\ f.slog[i + 1].query = query2(f.goal)
                      /\ f.slog[i + 1].attempt = f.slog[i].attempt
                /\ (i + 1 = n /\ f.pc \in {"gl_set", "gl_done"}) =>
                      /\ \A k \in 1..Len(f.merged) :
                            \E j \in 1..Len(Handed(f.slog[n])) :
                                f.merged[k] = Handed(f.slog[n])[j]
                      /\ (f.slog[n].err = NoErr /\ f.slog[n].matched) =>
                            /\ f.link \in URLs
                            /\ f.link = matchLink(f.slog[n].results)
                            /\ f.err = NoErr
                            /\ \A w \in 1..Len(f.wlog) : f.wlog[w].value = f.link

\* C34 (amended): when the primary Search of an attempt returned an error,
\* searchForGoalOnce goes on to the secondary query with no candidates in
\* hand; the candidates the matcher sees are then the secondary results
\* alone, each URL by its first result; GoalLink returns and stores the
\* link of the first of these that matches, and no link when none of them
\* matches, also when a later result with the URL of one of them does.
C34_SecondaryMatchAfterDedupe ==
    \A p \in Callers :
        LET f == fr[p]
            n == Len(f.slog)
        IN \A i \in 1..n :
            (f.slog[i].query = query1(f.goal) /\ f.slog[i].err # NoErr) =>
                /\ i = n => (f.pc = "q2" /\ f.allResults = <<>>)
                /\ i < n =>
                      /\ f.slog[i + 1].query = query2(f.goal)
                      /\ f.slog[i + 1].attempt = f.slog[i].attempt
                /\ (i + 1 = n /\ f.pc \in {"gl_set", "gl_done"}) =>
                      LET r == Handed(f.slog[n]) IN
                      /\ Len(f.merged) = Cardinality(Firsts(r))
                      /\ \A k \in 1..Len(f.merged) :
                            \E j \in Firsts(r) : f.merged[k] = r[j]
                      /\ f.err = NoErr
                      /\ FirstMatches(r) = {} => f.link = NilLink
                      /\ FirstMatches(r) # {} =>
                            \E m \in FirstMatches(r) :
                                /\ \A m2 \in FirstMatches(r) : m <= m2
                                /\ f.link = r[m].URL
                      /\ \A w \in 1..Len(f.wlog) :
                            f.wlog[w].value = writtenValue(f.link)

\* the primary Search failed with a network error, the secondary one
\* returned a matching post, and its link was returned and stored
C34_Witness ==
    LET f == fr[1] IN
    /\ f.pc = "gl_done"
    /\ Len(f.slog) = 2
    /\ f.slog[1].err = "fetch from reddit"
    /\ f.slog[2].err = NoErr
    /\ f.slog[2].results = <<[URL |-> "u2", Title |-> "goal"]>>
    /\ f.link = "u2"
    /\ f.wlog = <<[value |-> "u2", ok |-> TRUE]>>

\* C35: a GoalLink call that reaches searchForGoal when the clock is at or
\* past the token's expiry, on a client with an OAuth fetcher, searches
\* through the public fetcher: none of its Search calls is a call of
\* OAuthClient.Search (none fails in the token validation or in the OAuth
\* request, none is stuck in a token exchange), and the access token, the
\* refresh token, the expiry and the token lock stay as the call found
\* them, so that the calls after it find the token expired too.
C35_ExpiredTokenStaysExpired ==
    \A p \in Callers :
        LET f == fr[p] IN
        (oauthFetcher /\ f.pick # <<>> /\ f.pick[5] >= f.pick[3]) =>
            /\ f.fetcher = "public"
            /\ f.pc # "hung"
            /\ \A i \in 1..Len(f.slog) :
                  /\ ~f.slog[i].hang
                  /\ f.slog[i].err \notin OAuthErrs \cup {TokenErr}
            /\ <<accessToken, refreshTokenValue, tokenExpiry>> =
                  <<f.pick[1], f.pick[2], f.pick[3]>>
            /\ tokenMutex = 0
            /\ now >= tokenExpiry

\* after the expiry GoalLinks resolved one goal through the public fetcher
\* and is resolving the next one through it as well
C35_Witness ==
    LET f == fr[1] IN
    /\ oauthFetcher
    /\ accessToken # ""
    /\ f.mode = "many"
    /\ f.j = 1
    /\ \E k \in DOMAIN f.got : f.got[k].link \in URLs
    /\ f.pc = "gl_done"
    /\ f.fetcher = "public"
    /\ f.pick[5] >= f.pick[3]
    /\ Len(f.slog) = 2

----------------------------------------------------------------------------
(* Further claims about the public fetcher, checked under SpecFetcher *)

\* C36: a response of the public fetcher with status 200 is decoded into
\* results only when its body holds none of the indicator phrases: a body
\* that holds one, a well-formed JSON payload too, gives the blocked error
\* and no results, and recordCaptchaError has been called for it.
C36_PhraseBlocksDecoding ==
    \A p \in FetchCallers :
        LET resp == pub[p].resp IN
        (/\ pub[p].pc = "done" /\ pub[p].kind = "public"
         /\ resp.transport /\ resp.status = 200) =>
            /\ resp.phrase =>
                  /\ pub[p].err = "blocking requests (CAPTCHA/bot detection)"
                  /\ pub[p].signalled
                  /\ captchaCount >= 1
                  /\ lastCaptchaTime # ZeroTime
            /\ pub[p].err = "ok" => (~resp.phrase /\ resp.json)
            /\ (~resp.phrase /\ resp.json) => (pub[p].err = "ok" /\ ~pub[p].signalled)

\* a well-formed payload with an indicator phrase in a post was answered
\* with the blocked error and counted as an abuse signal, after a payload
\* without one had been decoded
C36_Witness ==
    \E p \in FetchCallers :
        /\ pub[p].pc = "done"
        /\ pub[p].kind = "public"
        /\ pub[p].resp = [transport |-> TRUE, status |-> 200, phrase |-> TRUE,
                          json |-> TRUE, html |-> FALSE]
        /\ pub[p].err = "blocking requests (CAPTCHA/bot detection)"
        /\ pub[p].signalled
        /\ captchaCount = 1
        /\ pub[3 - p].pc = "done"
        /\ pub[3 - p].err = "ok"

----------------------------------------------------------------------------
(* Claims about the DialogOverlay, checked under SpecDialog *)

\* the dialogs that were opened and not closed, by their number
OpenSerials == (1..opened) \ closed

\* C38: the overlay is a stack in the order of opening: it holds exactly
\* the dialogs opened and not closed, the earlier opened below the later
\* ones; FrontDialog returns the most recently opened of them, nil when
\* there is none; HasDialogs is true exactly when there is one; and an
\* Update changes the front dialog only, by the message it delivers, and
\* leaves the other dialogs and the order as they were.
C38_LIFO ==
    /\ {dialogs[i].serial : i \in 1..Len(dialogs)} = OpenSerials
    /\ \A i, j \in 1..Len(dialogs) : i < j => dialogs[i].serial < dialogs[j].serial
    /\ HasDialogs <=> OpenSerials # {}
    /\ OpenSerials = {} => FrontDialog = NilDialog
    /\ OpenSerials # {} =>
          /\ FrontDialog.serial \in OpenSerials
          /\ \A n \in OpenSerials : n <= FrontDialog.serial
    /\ lastOp.op = "Update" =>
          LET b == lastOp.before IN
          /\ Len(dialogs) = Len(b)
          /\ \A i \in 1..(Len(b) - 1) : dialogs[i] = b[i]
          /\ Len(b) > 0 =>
                /\ dialogs[Len(b)].serial = b[Len(b)].serial
                /\ dialogs[Len(b)].id = b[Len(b)].id
                /\ dialogs[Len(b)].msgs = b[Len(b)].msgs + 1

\* after the second of three dialogs was closed by its ID and the third by
\* CloseFrontDialog, the first is the front dialog and gets the message
C38_Witness ==
    /\ opened = 3
    /\ closed = {2, 3}
    /\ lastOp.op = "Update"
    /\ FrontDialog = [id |-> "help", serial |-> 1, msgs |-> 1]

\* an Update with three dialogs open changed the front one only
C38_WitnessUpdate ==
    /\ lastOp.op = "Update"
    /\ Len(dialogs) = 3
    /\ dialogs[1].msgs = 0
    /\ dialogs[2].msgs = 1
    /\ dialogs[3].msgs = 1

\* C39: CloseDialog(id) takes one dialog off the stack, the one nearest
\* the bottom among those with the ID, and leaves the others in their
\* order; it changes nothing when no dialog has the ID, and CloseFrontDialog
\* changes nothing on an empty overlay. OpenDialog adds its dialog also
\* when the ID is already in the stack, so that a dialog with the ID can
\* remain after CloseDialog(id).
C39_CloseOldest ==
    LET b == lastOp.before
        id == lastOp.id
        hits == {i \in 1..Len(b) : b[i].id = id}
    IN /\ lastOp.op = "CloseDialog" =>
             /\ hits = {} => dialogs = b
             /\ hits # {} =>
                   \E i \in hits :
                       /\ \A j \in hits : i <= j
                       /\ Len(dialogs) = Len(b) - 1
                       /\ \A k \in 1..(i - 1) : dialogs[k] = b[k]
                       /\ \A k \in i..(Len(b) - 1) : dialogs[k] = b[k + 1]
                       /\ ContainsDialog(id) <=> Cardinality(hits) > 1
       /\ (lastOp.op = "CloseFrontDialog" /\ b = <<>>) => dialogs = <<>>
       /\ lastOp.op = "OpenDialog" =>
             /\ Len(dialogs) = Len(b) + 1
             /\ ContainsDialog(id)

\* CloseDialog("help") on help, confirm, help took the bottom dialog off
\* and left confirm below the second help dialog
C39_Witness ==
    /\ lastOp.op = "CloseDialog"
    /\ lastOp.id = "help"
    /\ Len(lastOp.before) = 3
    /\ lastOp.before[1].id = "help"
    /\ lastOp.before[2].id = "confirm"
    /\ lastOp.before[3].id = "help"
    /\ dialogs = <<lastOp.before[2], lastOp.before[3]>>
    /\ ContainsDialog("help")

\* CloseDialog for an ID that no dialog has left two dialogs as they were
C39_WitnessNoOp ==
    /\ lastOp.op = "CloseDialog"
    /\ ~ContainsDialog(lastOp.id)
    /\ Len(dialogs) = 2
    /\ dialogs = lastOp.before

\* the primary Search failed; the secondary one returned two posts with one
\* URL of which only the second matches: it was left out as a duplicate and
\* NotFound was stored
C34_WitnessDropped ==
    LET f == fr[1] IN
    /\ f.pc = "gl_done"
    /\ Len(f.slog) = 2
    /\ f.slog[1].err = "fetch from reddit"
    /\ f.slog[2].results = <<[URL |-> "u1", Title |-> "other"],
                             [URL |-> "u1", Title |-> "goal"]>>
    /\ f.link = NilLink
    /\ f.wlog = <<[value |-> NotFoundMarker, ok |-> TRUE]>>

====
